---- MODULE Spec2Model ----
(***************************************************************************)
(* A model of the data-access core of TabarekIPTV:                         *)
(*   src/src/services/xtream.ts  (XtreamService: response cache, in-flight *)
(*                                deduplication, retrying fetcher)         *)
(*   src/src/services/db.ts      (Database: the persistent progress store) *)
(*                                                                         *)
(* JavaScript runs one task at a time: an action of this model is the code *)
(* that runs between two suspension points (an await on the network, on a  *)
(* timer, or on an already settled promise).                               *)
(***************************************************************************)
EXTENDS Integers, Sequences, FiniteSets, TLC

VARIABLES
    now,              \* Date.now(), in milliseconds
    nextSweep,        \* due time of the setInterval(cleanCache) timer
    cache,            \* XtreamService.cache: key -> CacheEntry
    pendingRequests,  \* XtreamService.pendingRequests: pending key -> chain id
    chains,           \* the fetchWithRetry calls made so far (a sequence)
    callers,          \* the service calls made so far (a sequence)
    aborted,          \* callers whose AbortSignal has fired
    stored,           \* ghost: key -> the last cacheSet not invalidated since
    storage,          \* localStorage[STORAGE_KEY], the durable medium
    procs,            \* the Database calls in progress (slot -> call)
    opsStarted,       \* the number of Database calls made so far
    lastWrite,        \* ghost: the last call that changed the medium
    config,           \* XtreamService.config
    userInfo,         \* XtreamService.userInfo
    logins,           \* the authenticate calls made so far (a sequence)
    built,            \* ghost: the last stream URL built
    mounted,          \* IntegratedPlayer is mounted
    content,          \* its props contentType and contentId
    loads,            \* the loadContent runs started so far (a sequence)
    abortController,  \* abortController.current: the run whose controller it is, 0 for null
    signalled,        \* the runs whose AbortController has been aborted
    epgUpdateInterval,\* epgUpdateInterval.current: an interval id, 0 for null
    intervals,        \* the window.setInterval timers created so far (id -> timer)
    streamInfo,       \* React state streamInfo
    loading,          \* React state loading
    playerError,      \* React state error
    selectedAudioId   \* React state selectedAudioId

vars == <<now, nextSweep, cache, pendingRequests, chains, callers, aborted,
          stored, storage, procs, opsStarted, lastWrite, config, userInfo,
          logins, built, mounted, content, loads, abortController, signalled,
          epgUpdateInterval, intervals, streamInfo, loading, playerError,
          selectedAudioId>>

uivars == <<mounted, content, loads, abortController, signalled,
            epgUpdateInterval, intervals, streamInfo, loading, playerError,
            selectedAudioId>>

authvars == <<config, userInfo, logins, built>>

dbvars == <<storage, procs, opsStarted, lastWrite>>

(***************************************************************************)
(* JavaScript values.                                                      *)
(***************************************************************************)
Undefined == [t |-> "undefined"]
Null      == [t |-> "null"]
NaN       == [t |-> "NaN"]
PosInf    == [t |-> "Infinity"]
NegInf    == [t |-> "-Infinity"]
Num(n)    == [t |-> "number", v |-> n]
Str(s)    == [t |-> "string", s |-> s]
Arr(xs)   == [t |-> "array", items |-> xs]

\* ToBoolean: what `if (x)`, `!x` and `x || y` test.
Truthy(x) ==
    CASE x.t = "undefined" -> FALSE
      [] x.t = "null"      -> FALSE
      [] x.t = "NaN"       -> FALSE
      [] x.t = "number"    -> x.v # 0
      [] x.t = "string"    -> x.s # <<>>
      [] OTHER             -> TRUE

DigitChar == <<"0", "1", "2", "3", "4", "5", "6", "7", "8", "9">>

RECURSIVE Digits(_)
Digits(n) ==
    IF n < 10 THEN <<DigitChar[n + 1]>>
    ELSE Digits(n \div 10) \o <<DigitChar[(n % 10) + 1]>>

\* `${x}` and x.toString() for the strings and non-negative integers used as ids.
ToStr(x) == IF x.t = "string" THEN x.s ELSE Digits(x.v)

\* String.prototype.startsWith
StartsWith(s, prefix) ==
    /\ Len(prefix) <= Len(s)
    /\ SubSeq(s, 1, Len(prefix)) = prefix

STR_streams   == <<"s", "t", "r", "e", "a", "m", "s">>
STR_epg       == <<"e", "p", "g">>
STR_movie     == <<"m", "o", "v", "i", "e">>
STR_movieInfo == <<"m", "o", "v", "i", "e", "I", "n", "f", "o">>
STR_all       == <<"a", "l", "l">>
STR_pending   == <<"p", "e", "n", "d", "i", "n", "g">>
Underscore    == <<"_">>

(***************************************************************************)
(* Program constants of XtreamService.                                     *)
(***************************************************************************)
retryDelays_swapped == <<1000, 5000, 2000>>
retryDelays == <<1000, 2000, 5000>>

MinuteMs == 60 * 1000

\* variant: the durations of epg and movieInfo exchanged
CACHE_DURATION_swapped ==
    [epg |-> 30 * MinuteMs, movieInfo |-> 5 * MinuteMs, streams |-> 10 * MinuteMs]

CACHE_DURATION ==
    [epg |-> 5 * MinuteMs, movieInfo |-> 30 * MinuteMs, streams |-> 10 * MinuteMs]

SweepPeriod == 5 * MinuteMs

DEFAULT_LIMIT == 24

(***************************************************************************)
(* Bounds of the model.                                                    *)
(***************************************************************************)
MaxFetchTicks == 9      \* seconds of clock in SpecFetch
MaxCacheCalls == 2      \* service calls in SpecCache
MaxCacheTicks == 3      \* clock ticks (of SweepPeriod) in SpecCache
MaxDedupCalls == 2      \* service calls in SpecDedup
MaxDedupTicks == 1      \* seconds of clock in SpecDedup
MaxFailCalls == 2     \* service calls in SpecFail
MaxFailTicks == 8     \* seconds in SpecFail
MaxSweepCalls == 2     \* service calls in SpecSweep
MaxSweepTicks == 11     \* minutes of clock in SpecSweep
MaxFlightCalls == 2     \* getLiveStreams calls in SpecFlight
MaxFlightSeconds == 1     \* seconds of clock in SpecFlight
MaxFlightPeriods == 3     \* sweep periods of clock in SpecFlight
MaxLiveCalls == 2     \* getLiveStreams calls in SpecLive
MaxLiveTicks == 1     \* seconds of clock with no backoff timer running in SpecLive
MaxLoads == 3     \* loadContent runs of the player in SpecPlayer

SecondMs == MinuteMs \div 60

(***************************************************************************)
(* Response cache.                                                         *)
(***************************************************************************)
Expired(entry, t) == entry.expiresAt <= t

\* variant: the sweep empties the cache
cleanCache_all(c, t) == [k \in {} |-> c[k]]

\* variant: an entry expiring at the very time of the sweep is kept
cleanCache_strict(c, t) ==
    [k \in {kk \in DOMAIN c : c[kk].expiresAt > t - 1} |-> c[k]]

cleanCache(c, t) ==
    [k \in {kk \in DOMAIN c : ~Expired(c[kk], t)} |-> c[k]]

\* cacheGet returns a value and may delete the entry: the two halves.
cacheGet_strict(c, key, t) ==
    IF key \notin DOMAIN c THEN Null
    ELSE IF c[key].expiresAt < t THEN Null
    ELSE c[key].data

cacheGet(c, key, t) ==
    IF key \notin DOMAIN c THEN Null
    ELSE IF Expired(c[key], t) THEN Null
    ELSE c[key].data

cacheAfterGet(c, key, t) ==
    IF key \in DOMAIN c /\ Expired(c[key], t)
    THEN [k \in DOMAIN c \ {key} |-> c[k]]
    ELSE c

cacheSet(c, key, data, duration, t) ==
    [k \in DOMAIN c \cup {key} |->
        IF k = key
        THEN [data |-> data, timestamp |-> t, expiresAt |-> t + duration]
        ELSE c[k]]

clearCache(c, type) ==
    [k \in {kk \in DOMAIN c : ~StartsWith(kk, type)} |-> c[k]]

(***************************************************************************)
(* Cache keys and TTLs of the three fetch-backed operations.               *)
(***************************************************************************)
StreamsKey(category_id) ==
    STR_streams \o Underscore \o
        (IF Truthy(category_id) THEN category_id.s ELSE STR_all)

EpgKey(stream_id, limit) ==
    STR_epg \o Underscore \o ToStr(stream_id) \o Underscore \o ToStr(limit)

MovieKey(movie_id) == STR_movie \o Underscore \o ToStr(movie_id)

PendingKey(cacheKey) == STR_pending \o Underscore \o cacheKey

\* The name clearCache takes for the entries of an operation.
KindName(op) ==
    CASE op = "epg"       -> STR_epg
      [] op = "movieInfo" -> STR_movieInfo
      [] op = "streams"   -> STR_streams

Ops == {"streams", "epg", "movieInfo"}

\* The arguments the model calls the operations with.
CategoryArgs == {Undefined, Str(<<"1">>)}
StreamArgs   == {Num(1)}
MovieArgs    == {Num(7)}

CallInputs ==
    {[op |-> "streams", key |-> StreamsKey(c)] : c \in CategoryArgs}
    \cup {[op |-> "epg", key |-> EpgKey(s, Num(DEFAULT_LIMIT))] : s \in StreamArgs}
    \cup {[op |-> "movieInfo", key |-> MovieKey(m)] : m \in MovieArgs}

\* the getLiveStreams calls among them
FlightInputs == {in \in CallInputs : in.op = "streams"}

\* the getLiveStreams calls for one category
LiveInputs == {in \in FlightInputs : in.key = StreamsKey(Str(<<"1">>))}

\* What a 2xx response body decodes to.
Bodies == {Null, Arr(<<>>), Arr(<<2, 1>>)}

(***************************************************************************)
(* Retrying fetcher: one chain is one top-level fetchWithRetry call with   *)
(* its recursive retries.                                                  *)
(*   pc: "fetching" (a network attempt is outstanding), "waiting" (the     *)
(*       backoff timer is running), "resolved", "rejected"                 *)
(***************************************************************************)
AbortError(n) == [t |-> "error", name |-> "AbortError", attempt |-> n]

\* The outcomes of one network attempt other than a cancellation.
FailureKinds == {"status", "network", "decode"}

ErrorOf(kind, n) ==
    [t |-> "error",
     name |-> CASE kind = "status"  -> "Error"
                [] kind = "network" -> "TypeError"
                [] kind = "decode"  -> "SyntaxError",
     attempt |-> n]

NewChain(op, key, owner, hasSignal) ==
    [op |-> op, key |-> key, owner |-> owner, hasSignal |-> hasSignal,
     pc |-> "fetching", retryCount |-> 0, deadline |-> 0, result |-> Null,
     \* ghost fields
     attempts |-> 1, errs |-> <<>>, delays |-> <<>>, waits |-> <<>>,
     cancelled |-> FALSE, lateAttempts |-> 0, stale |-> FALSE]

\* the attempt returned a 2xx response whose body decoded to `body`
AttemptOk(ch, body) ==
    [ch EXCEPT !.pc = "resolved", !.result = body]

\* the catch block: `error` was thrown by the attempt
AttemptFailed(ch, error, t) ==
    LET logged == [ch EXCEPT !.errs = Append(@, error)]
    IN  IF error.name = "AbortError"
        THEN [logged EXCEPT !.pc = "rejected", !.result = error]
        ELSE IF ch.retryCount < Len(retryDelays)
        THEN [logged EXCEPT !.pc = "waiting",
                            !.deadline = t + retryDelays[ch.retryCount + 1],
                            !.delays = Append(@, retryDelays[ch.retryCount + 1])]
        ELSE [logged EXCEPT !.pc = "rejected", !.result = error]

\* the backoff timer fired: fetchWithRetry(url, options, retryCount + 1).
\* fetch() with a signal that is already aborted rejects without a request.
RetryStarted(ch, signalAborted, t) ==
    LET waited == t - (ch.deadline - retryDelays[ch.retryCount + 1])
        next   == [ch EXCEPT !.retryCount = @ + 1, !.waits = Append(@, waited)]
    IN  IF signalAborted
        THEN AttemptFailed(next, AbortError(ch.attempts + 1), t)
        ELSE [next EXCEPT !.pc = "fetching", !.attempts = @ + 1,
                          !.lateAttempts = IF ch.cancelled THEN @ + 1 ELSE @]

\* the owner's signal fired while the chain was in progress
ChainAborted(ch, t) ==
    IF ch.pc = "fetching"
    THEN AttemptFailed([ch EXCEPT !.cancelled = TRUE], AbortError(ch.attempts), t)
    ELSE [ch EXCEPT !.cancelled = TRUE]

(***************************************************************************)
(* The service calls.  A caller is one invocation of getLiveStreams,       *)
(* getEPG or getMovieInfo:                                                 *)
(*   role "hit": served from the cache; "owner": started chain `chain`;    *)
(*   "joined": was handed the pending promise of chain `chain`.            *)
(* A caller that has its outcome and a chain that has settled are shown in *)
(* the state their last step produces and are forgotten by the next step   *)
(* (pc "gone"): nothing in the program refers to them any more.            *)
(***************************************************************************)
svcvars == <<nextSweep, cache, pendingRequests, chains, callers, aborted, stored>>

NotStored == [set |-> FALSE]

Gone == [pc |-> "gone"]

Settled(ch) == ch.pc \in {"resolved", "rejected"}

LiveCallers ==
    [x \in DOMAIN callers |-> IF callers[x].pc = "waiting" THEN callers[x] ELSE Gone]

LiveChains ==
    [c \in DOMAIN chains |->
        IF chains[c].pc \in {"fetching", "waiting"} THEN chains[c] ELSE Gone]

StillWaiting(ab, cs) == {x \in ab : cs[x].pc = "waiting"}

\* a step that touches neither the callers nor the chains
Forget ==
    /\ callers' = LiveCallers
    /\ chains' = LiveChains
    /\ aborted' = StillWaiting(aborted, LiveCallers)

With(f, key, val) == [k \in DOMAIN f \cup {key} |-> IF k = key THEN val ELSE f[k]]

Value(v) == [kind |-> "value", v |-> v]
Failure(e) == [kind |-> "error", v |-> e]

\* variant: no operation looks the pending registry up
Deduplicated_none(op) == FALSE

\* getLiveStreams looks the pending registry up; getEPG and getMovieInfo do not.
Deduplicated(op) == op = "streams"

\* variant: whatever the request settled with is stored
cacheAfterSettle_always(c, ch, t) ==
    cacheSet(c, ch.key, ch.result, CACHE_DURATION[ch.op], t)

\* this.cacheSet(cacheKey, data, ...) after the request: reached only when the
\* request resolved (the .then handler, the statement after the await)
cacheAfterSettle(c, ch, t) ==
    IF ch.pc = "resolved"
    THEN cacheSet(c, ch.key, ch.result, CACHE_DURATION[ch.op], t)
    ELSE c

\* variant: the registration is removed by the .then handler only
Unregister_onSuccess(pr, ch) ==
    IF Deduplicated(ch.op) /\ ch.pc = "resolved"
    THEN [k \in DOMAIN pr \ {PendingKey(ch.key)} |-> pr[k]]
    ELSE pr

\* variant: no handler removes the registration
Unregister_never(pr, ch) == pr

\* this.pendingRequests.delete(pendingKey) in the .then and the .catch handler of
\* getLiveStreams, run when chain ch has settled
Unregister(pr, ch) ==
    IF Deduplicated(ch.op)
    THEN [k \in DOMAIN pr \ {PendingKey(ch.key)} |-> pr[k]]
    ELSE pr

\* The first synchronous part of getLiveStreams / getEPG / getMovieInfo.
Call(in, hasSignal, maxCalls) ==
    /\ Len(callers) < maxCalls
    /\ LET id     == Len(callers) + 1
           cached == cacheGet(cache, in.key, now)
           after  == cacheAfterGet(cache, in.key, now)
           pkey   == PendingKey(in.key)
           same   == {x \in DOMAIN callers :
                        /\ callers[x].pc = "waiting"
                        /\ callers[x].op = in.op
                        /\ callers[x].key = in.key}
           \* ghost: what cacheGet answered, and what the last cacheSet of the
           \* key (not invalidated since) obliges it to answer
           since  == IF in.key \in DOMAIN stored THEN stored[in.key] ELSE NotStored
           lookup == [result |-> cached, present |-> in.key \in DOMAIN after,
                      set |-> since.set,
                      fresh |-> since.set /\ now < since.t0 + since.ttl,
                      data |-> IF since.set THEN since.data ELSE Null]
           base   == [op |-> in.op, key |-> in.key, hasSignal |-> hasSignal,
                      lookup |-> lookup, overlap |-> {}]
       IN  /\ cache' = after
           /\ IF Truthy(cached)
              THEN /\ callers' = Append(LiveCallers,
                          base @@ [role |-> "hit", chain |-> 0, pc |-> "done",
                                   outcome |-> Value(cached)])
                   /\ chains' = LiveChains
                   /\ UNCHANGED pendingRequests
              ELSE IF Deduplicated(in.op) /\ pkey \in DOMAIN pendingRequests
              THEN /\ callers' = Append(LiveCallers,
                          [base EXCEPT !.overlap = same] @@
                              [role |-> "joined", chain |-> pendingRequests[pkey],
                               pc |-> "waiting", outcome |-> Value(Null)])
                   /\ chains' = LiveChains
                   /\ UNCHANGED pendingRequests
              ELSE /\ chains' = Append(LiveChains,
                          NewChain(in.op, in.key, id, hasSignal))
                   /\ callers' = Append(LiveCallers,
                          [base EXCEPT !.overlap = same] @@
                              [role |-> "owner", chain |-> Len(chains) + 1,
                               pc |-> "waiting", outcome |-> Value(Null)])
                   /\ pendingRequests' =
                          IF Deduplicated(in.op)
                          THEN With(pendingRequests, pkey, Len(chains) + 1)
                          ELSE pendingRequests
    /\ aborted' = StillWaiting(aborted, LiveCallers)
    /\ UNCHANGED <<now, nextSweep, stored>>

\* Chain c has become ch2.  When ch2 is settled the code awaiting it runs:
\* the .then/.catch of getLiveStreams, the rest of getEPG / getMovieInfo.
Deliver(c, ch2, ab) ==
    /\ chains' = [LiveChains EXCEPT ![c] = ch2]
    /\ IF ~Settled(ch2)
       THEN /\ callers' = LiveCallers
            /\ UNCHANGED <<cache, pendingRequests, stored>>
       ELSE /\ cache' = cacheAfterSettle(cache, ch2, now)
            /\ stored' = IF ch2.pc = "resolved"
                          THEN With(stored, ch2.key,
                                    [set |-> TRUE, data |-> ch2.result,
                                     t0 |-> now, ttl |-> CACHE_DURATION[ch2.op],
                                     op |-> ch2.op])
                          ELSE stored
            /\ pendingRequests' = Unregister(pendingRequests, ch2)
            /\ callers' =
                   [x \in DOMAIN callers |->
                       IF LiveCallers[x].pc = "waiting" /\ LiveCallers[x].chain = c
                       THEN [callers[x] EXCEPT
                               !.pc = "done",
                               !.outcome = IF ch2.pc = "resolved"
                                           THEN Value(ch2.result)
                                           ELSE Failure(ch2.result)]
                       ELSE LiveCallers[x]]
    /\ aborted' = StillWaiting(ab, callers')

InFlight(c) == c \in DOMAIN chains /\ chains[c].pc \in {"fetching", "waiting"}

\* A network attempt of chain c ends with a 2xx response and a decoded body.
RespondOk(c, body) ==
    /\ InFlight(c)
    /\ chains[c].pc = "fetching"
    /\ Deliver(c, AttemptOk(chains[c], body), aborted)
    /\ UNCHANGED <<now, nextSweep>>

\* A network attempt of chain c fails: non-2xx status, transport failure, or a
\* body that response.json() cannot decode.
RespondFail(c, kind) ==
    /\ InFlight(c)
    /\ chains[c].pc = "fetching"
    /\ Deliver(c, AttemptFailed(chains[c], ErrorOf(kind, chains[c].attempts), now),
               aborted)
    /\ UNCHANGED <<now, nextSweep>>

\* The backoff timer of chain c fires.
TimerFire(c) ==
    /\ InFlight(c)
    /\ chains[c].pc = "waiting"
    /\ chains[c].deadline <= now
    /\ Deliver(c, RetryStarted(chains[c],
                               chains[c].hasSignal /\ chains[c].owner \in aborted,
                               now),
               aborted)
    /\ UNCHANGED <<now, nextSweep>>

\* Caller x aborts the AbortController whose signal it passed.
Abort(x) ==
    /\ x \in DOMAIN callers
    /\ callers[x].pc = "waiting"
    /\ callers[x].hasSignal
    /\ x \notin aborted
    /\ IF callers[x].role = "owner"
       THEN Deliver(callers[x].chain, ChainAborted(chains[callers[x].chain], now),
                    aborted \cup {x})
       ELSE /\ callers' = LiveCallers
            /\ chains' = LiveChains
            /\ aborted' = StillWaiting(aborted \cup {x}, LiveCallers)
            /\ UNCHANGED <<cache, pendingRequests, stored>>
    /\ UNCHANGED <<now, nextSweep>>

\* XtreamService.clearCache(type)
ClearCache(type) ==
    /\ DOMAIN cache # {}       \* on an empty cache the call changes nothing
    /\ cache' = clearCache(cache, KindName(type))
    /\ stored' = [k \in DOMAIN stored \ (DOMAIN cache \ DOMAIN cache') |-> stored[k]]
    /\ callers' = LiveCallers
    \* ghost: the requests of the kind that are in flight were started before
    \* this invalidation
    /\ chains' = [c \in DOMAIN chains |->
                    IF InFlight(c) /\ chains[c].op = type
                    THEN [chains[c] EXCEPT !.stale = TRUE]
                    ELSE LiveChains[c]]
    /\ aborted' = StillWaiting(aborted, LiveCallers)
    /\ UNCHANGED <<now, nextSweep, pendingRequests>>

\* The setInterval callback of the constructor.
Sweep ==
    /\ nextSweep <= now
    /\ cache' = cleanCache(cache, now)
    /\ nextSweep' = nextSweep + SweepPeriod
    /\ Forget
    /\ UNCHANGED <<now, pendingRequests, stored>>

\* Time passes; timers fire when they are due.
NoTimerDue ==
    /\ nextSweep > now
    /\ \A c \in DOMAIN chains : chains[c].pc = "waiting" => chains[c].deadline > now

Tick(step, maxTicks) ==
    /\ NoTimerDue
    /\ now + step <= maxTicks * step
    /\ now' = now + step
    /\ Forget
    /\ UNCHANGED <<nextSweep, cache, pendingRequests, stored>>

SvcStart ==
    /\ nextSweep = SweepPeriod
    /\ cache = <<>>
    /\ pendingRequests = <<>>
    /\ chains = <<>>
    /\ callers = <<>>
    /\ aborted = {}
    /\ stored = <<>>

SvcInit == now = 0 /\ SvcStart

(***************************************************************************)
(* JavaScript numbers, as far as the progress store computes with them.    *)
(***************************************************************************)
IsNumber(x) == x.t \in {"number", "NaN", "Infinity", "-Infinity"}   \* typeof x === 'number'
IsString(x) == x.t = "string"                                       \* typeof x === 'string'

\* a === b for primitives
StrictEq(a, b) == a.t # "NaN" /\ a = b

IsDigits(s) == \A i \in DOMAIN s : \E d \in DOMAIN DigitChar : DigitChar[d] = s[i]

RECURSIVE ParseDigits(_)
ParseDigits(s) ==
    IF s = <<>> THEN 0
    ELSE 10 * ParseDigits(SubSeq(s, 1, Len(s) - 1))
         + (CHOOSE d \in 0..9 : DigitChar[d + 1] = s[Len(s)])

\* ToNumber
ToNumber(x) ==
    CASE IsNumber(x)       -> x
      [] x.t = "null"      -> Num(0)
      [] x.t = "string"    -> IF IsDigits(x.s) THEN Num(ParseDigits(x.s)) ELSE NaN
      [] OTHER             -> NaN

\* variant: the number is taken as it is
MathMax0_unclamped(x) == ToNumber(x)

\* Math.max(0, x)
MathMax0(x) ==
    LET n == ToNumber(x)
    IN  CASE n.t = "NaN"       -> NaN
          [] n.t = "Infinity"  -> PosInf
          [] n.t = "-Infinity" -> Num(0)
          [] OTHER             -> Num(IF n.v > 0 THEN n.v ELSE 0)

\* t - x, for a finite t
Minus(t, x) ==
    LET n == ToNumber(x)
    IN  CASE n.t = "NaN"       -> NaN
          [] n.t = "Infinity"  -> NegInf
          [] n.t = "-Infinity" -> PosInf
          [] OTHER             -> Num(t - n.v)

\* a <= b on numbers
Leq(a, b) ==
    CASE a.t = "NaN" \/ b.t = "NaN"  -> FALSE
      [] a.t = "-Infinity"           -> TRUE
      [] b.t = "Infinity"            -> TRUE
      [] a.t = "Infinity"            -> FALSE
      [] b.t = "-Infinity"           -> FALSE
      [] OTHER                       -> a.v <= b.v

\* a <= x * k, for an integer k > 0 and a whole number x of days; computed by
\* division, the product of a month of milliseconds being beyond TLC's integers
LeqTimes(a, x, k) ==
    CASE a.t = "NaN" \/ x.t = "NaN"  -> FALSE
      [] a.t = "-Infinity"           -> TRUE
      [] x.t = "Infinity"            -> TRUE
      [] a.t = "Infinity"            -> FALSE
      [] x.t = "-Infinity"           -> FALSE
      [] OTHER                       ->
            (IF a.v % k = 0 THEN a.v \div k ELSE (a.v \div k) + 1) <= x.v

\* JSON.parse(JSON.stringify(x)) of a property value: a number that is not
\* finite is written as null; an undefined property is left out.
JsonValue(x) == IF x.t \in {"NaN", "Infinity", "-Infinity"} THEN Null ELSE x

(***************************************************************************)
(* The progress store (Database).                                          *)
(*   storage.kind: "missing" (no such key), "unparsable" (not JSON),       *)
(*     "nonarray" (JSON, not an array), "array" (items: the parsed array), *)
(*     "denied" (every access to localStorage throws)                      *)
(* An item of the array is null or an object with the five properties      *)
(* (a property that is left out reads as undefined).                       *)
(***************************************************************************)
MAX_ENTRIES == 100

DEFAULT_MAX_AGE_DAYS == 30

DayMs == 24 * 60 * 60 * 1000

Progress(type, id, position, duration, timestamp) ==
    [t |-> "object", type |-> type, id |-> id, position |-> position,
     duration |-> duration, timestamp |-> timestamp]

JsonItem(item) ==
    IF item.t # "object" THEN item
    ELSE Progress(JsonValue(item.type), JsonValue(item.id), JsonValue(item.position),
                  JsonValue(item.duration), JsonValue(item.timestamp))

MOVIE  == Str(STR_movie)
SERIES == Str(<<"s", "e", "r", "i", "e", "s">>)

Missing == [kind |-> "missing"]
Stored(items) == [kind |-> "array", items |-> items]

\* getAll: what the call returns
getAll(st) ==
    IF st.kind = "array" THEN st.items ELSE <<>>

\* the filter of saveAll
Valid(item) ==
    /\ Truthy(item)
    /\ IsString(item.id)
    /\ IsNumber(item.position)
    /\ IsNumber(item.duration)
    /\ IsNumber(item.timestamp)
    /\ (StrictEq(item.type, MOVIE) \/ StrictEq(item.type, SERIES))

\* data.slice(-n)
SliceLast(data, n) ==
    IF Len(data) <= n THEN data ELSE SubSeq(data, Len(data) - n + 1, Len(data))

\* saveAll: [ok: did not throw, storage: the medium afterwards]
saveAll_swallow(data, st, setItemThrows) ==
    LET trimmed   == SliceLast(data, MAX_ENTRIES)
        validated == SelectSeq(trimmed, Valid)
    IN  IF setItemThrows \/ st.kind = "denied"
        THEN [ok |-> TRUE, storage |-> st]
        ELSE [ok |-> TRUE,
              storage |-> Stored([i \in DOMAIN validated |-> JsonItem(validated[i])])]

saveAll(data, st, setItemThrows) ==
    LET trimmed   == SliceLast(data, MAX_ENTRIES)
        validated == SelectSeq(trimmed, Valid)
    IN  IF setItemThrows \/ st.kind = "denied"
        THEN [ok |-> FALSE, storage |-> st]
        ELSE [ok |-> TRUE,
              storage |-> Stored([i \in DOMAIN validated |-> JsonItem(validated[i])])]

\* item => item.type === type && item.id === id; reading a property of null throws
Matches(item, type, id) == StrictEq(item.type, type) /\ StrictEq(item.id, id)

Min(S) == CHOOSE x \in S : \A y \in S : x <= y

\* findIndex / find with that predicate: the first index at which the search
\* stops (a match, or a null item, on which it throws), 0 when it runs to the end
SearchStop(data, type, id) ==
    LET stops == {i \in DOMAIN data : data[i].t = "null" \/ Matches(data[i], type, id)}
    IN  IF stops = {} THEN 0 ELSE Min(stops)

HasNull(data) == \E i \in DOMAIN data : data[i].t = "null"

RemoveAt(data, i) == SubSeq(data, 1, i - 1) \o SubSeq(data, i + 1, Len(data))

\* variant: the new record is pushed without removing the existing one
saveProgressData_keep(data, type, id, position, duration, t) ==
    LET index == SearchStop(data, type, id)
    IN  IF index # 0 /\ data[index].t = "null"
        THEN [threw |-> TRUE, data |-> data]
        ELSE [threw |-> FALSE,
              data |-> Append(data, Progress(type, id, MathMax0(position),
                                             MathMax0(duration), Num(t)))]

\* the body of saveProgress after `await this.getAll()`:
\* [threw: findIndex threw, data: the array handed to saveAll]
saveProgressData(data, type, id, position, duration, t) ==
    LET index == SearchStop(data, type, id)
        rest  == IF index = 0 THEN data ELSE RemoveAt(data, index)
    IN  IF index # 0 /\ data[index].t = "null"
        THEN [threw |-> TRUE, data |-> data]
        ELSE [threw |-> FALSE,
              data |-> Append(rest, Progress(type, id, MathMax0(position),
                                             MathMax0(duration), Num(t)))]

\* getProgress: the value returned for the array `data`
getProgressValue(data, type, id) ==
    IF ~Truthy(id) \/ ~IsString(id) THEN Num(0)
    ELSE LET index == SearchStop(data, type, id)
         IN  IF index = 0 THEN Num(0)
             ELSE IF data[index].t = "null" THEN Num(0)
             ELSE MathMax0(data[index].position)

\* variant: the filter compares the id only
clearProgressData_anyType(data, type, id) ==
    IF HasNull(data) THEN [threw |-> TRUE, data |-> data]
    ELSE [threw |-> FALSE,
          data |-> SelectSeq(data, LAMBDA item : ~StrictEq(item.id, id))]

\* clearProgress: [threw, data]
clearProgressData(data, type, id) ==
    IF HasNull(data) THEN [threw |-> TRUE, data |-> data]
    ELSE [threw |-> FALSE,
          data |-> SelectSeq(data, LAMBDA item : ~Matches(item, type, id))]

\* the filter of pruneOldEntries
KeepByAge_noskew(age, maxAgeDays) == LeqTimes(age, maxAgeDays, DayMs)
KeepByAge(age, maxAgeDays) == LeqTimes(age, maxAgeDays, DayMs) /\ Leq(Num(0), age)

\* pruneOldEntries: [threw, data]
pruneData(data, maxAgeDays, t) ==
    IF HasNull(data) THEN [threw |-> TRUE, data |-> data]
    ELSE [threw |-> FALSE,
          data |-> SelectSeq(data,
                      LAMBDA item : KeepByAge(Minus(t, item.timestamp), maxAgeDays))]

\* the check of pruneOldEntries on its argument
BadMaxAge(maxAgeDays) == ~IsNumber(maxAgeDays) \/ Leq(maxAgeDays, Num(0))

\* XtreamService.saveWatchProgress / getWatchProgress await the Database call
\* and hand its outcome on.
saveWatchProgress(outcome) == outcome
getWatchProgress(outcome) == outcome

(***************************************************************************)
(* Bounds and inputs of the progress store model.                          *)
(***************************************************************************)
MaxDbOps == 3     \* Database calls made after construction
MaxDbProcs == 2     \* Database calls in progress at a time
MaxDbDays == 2     \* the clock runs over the days 0 .. MaxDbDays
MaxWriteOps == 3     \* Database calls made after construction in SpecWrite
MaxPruneOps == 3     \* Database calls made after construction in SpecPrune
MaxMediumOps == 2     \* Database calls made after construction in SpecMedium
MaxBulkSaves == 150     \* saveProgress calls in SpecBulk
MaxEvictSaves == 102     \* saveProgress calls in SpecEvict

ID_42 == Str(<<"4", "2">>)
ID_empty == Str(<<>>)

DbKeys == {<<MOVIE, ID_42>>, <<SERIES, ID_42>>}

\* (position, duration) pairs handed to saveProgress
SaveArgs ==
    {<<Num(120), Num(3600)>>, <<Num(200), Num(3600)>>, <<Num(0 - 5), Num(3600)>>,
     <<PosInf, Num(3600)>>, <<Num(120), NaN>>, <<Undefined, Num(3600)>>}

MaxAgeArgs == {Num(1), Num(0)}

Procs == 1..MaxDbProcs

Idle == [pc |-> "idle"]

Running(p) == procs[p].pc = "resume"

LiveProcs == [p \in Procs |-> IF Running(p) THEN procs[p] ELSE Idle]

NoWrite == [op |-> "none"]

\* a call that has run up to its first await, holding what getAll returned
NewProc(op, type, id, position, duration, maxAgeDays, data) ==
    [pc |-> "resume", op |-> op, type |-> type, id |-> id, position |-> position,
     duration |-> duration, maxAgeDays |-> maxAgeDays, data |-> data,
     startup |-> FALSE, result |-> Value(Undefined), seen |-> Value(Undefined),
     \* ghost fields
     cause |-> "none", after |-> lastWrite, overlapped |-> FALSE, before |-> <<>>,
     writeThrew |-> FALSE, medium |-> storage]

Threw(rec, cause) ==
    [rec EXCEPT !.pc = "failed", !.cause = cause,
                !.result = Failure(cause),
                !.seen = IF rec.op = "saveProgress"
                         THEN saveWatchProgress(Failure(cause))
                         ELSE Failure(cause)]

Returned(rec, v) ==
    [rec EXCEPT !.pc = "done",
                !.result = Value(v),
                !.seen = CASE rec.op = "saveProgress" -> saveWatchProgress(Value(v))
                           [] rec.op = "getProgress"  -> getWatchProgress(Value(v))
                           [] OTHER                   -> Value(v)]

\* the call is placed in the lowest free slot
Start(rec, maxOps) ==
    /\ opsStarted < maxOps
    /\ \E p \in Procs :
          /\ ~Running(p)
          /\ \A q \in Procs : q < p => Running(q)
          /\ procs' = [LiveProcs EXCEPT ![p] = rec]
    /\ opsStarted' = opsStarted + 1

\* a call wrote the medium while p was suspended
Overlap(p) ==
    [q \in Procs |->
        IF q # p /\ Running(q) THEN [procs[q] EXCEPT !.overlapped = TRUE]
        ELSE LiveProcs[q]]

\* saveProgress up to `await this.getAll()`
SaveCall(type, id, position, duration, maxOps) ==
    /\ LET rec == NewProc("saveProgress", type, id, position, duration, Num(0),
                          getAll(storage))
       IN  IF ~IsNumber(position) \/ ~IsNumber(duration)
           THEN Start(Threw(rec, "arguments"), maxOps)
           ELSE Start(rec, maxOps)
    /\ UNCHANGED <<storage, lastWrite, now>>

\* the rest of saveProgress
SaveResume(p, setItemThrows) ==
    /\ Running(p)
    /\ procs[p].op = "saveProgress"
    /\ LET rec  == [procs[p] EXCEPT !.before = getAll(storage),
                                    !.writeThrew = setItemThrows \/ storage.kind = "denied"]
           body == saveProgressData(rec.data, rec.type, rec.id, rec.position,
                                    rec.duration, now)
           res  == saveAll(body.data, storage, setItemThrows)
       IN  IF body.threw
           THEN /\ procs' = [LiveProcs EXCEPT ![p] = Threw(rec, "item")]
                /\ UNCHANGED <<storage, lastWrite>>
           ELSE IF ~res.ok
           THEN /\ procs' = [LiveProcs EXCEPT ![p] = Threw(rec, "write")]
                /\ UNCHANGED <<storage, lastWrite>>
           ELSE /\ procs' = [Overlap(p) EXCEPT ![p] = Returned(rec, Undefined)]
                /\ storage' = res.storage
                /\ lastWrite' = [op |-> "saveProgress", type |-> rec.type,
                                 id |-> rec.id, position |-> rec.position]
    /\ UNCHANGED <<opsStarted, now>>

\* getProgress up to `await this.getAll()`
GetCall(type, id, maxOps) ==
    /\ LET rec == NewProc("getProgress", type, id, Num(0), Num(0), Num(0),
                          getAll(storage))
       IN  Start(rec, maxOps)
    /\ UNCHANGED <<storage, lastWrite, now>>

\* the rest of getProgress
GetResume(p) ==
    /\ Running(p)
    /\ procs[p].op = "getProgress"
    /\ procs' = [LiveProcs EXCEPT ![p] =
                    Returned(procs[p],
                             getProgressValue(procs[p].data, procs[p].type, procs[p].id))]
    /\ UNCHANGED <<storage, lastWrite, opsStarted, now>>

\* clearProgress up to `await this.getAll()`
ClearCall(type, id, maxOps) ==
    /\ LET rec == NewProc("clearProgress", type, id, Num(0), Num(0), Num(0),
                          getAll(storage))
       IN  IF ~Truthy(id) \/ ~IsString(id)
           THEN Start(Threw(rec, "arguments"), maxOps)
           ELSE Start(rec, maxOps)
    /\ UNCHANGED <<storage, lastWrite, now>>

\* the rest of clearProgress
ClearResume(p, setItemThrows) ==
    /\ Running(p)
    /\ procs[p].op = "clearProgress"
    /\ LET rec  == [procs[p] EXCEPT !.before = getAll(storage),
                                    !.writeThrew = setItemThrows \/ storage.kind = "denied"]
           body == clearProgressData(rec.data, rec.type, rec.id)
           res  == saveAll(body.data, storage, setItemThrows)
       IN  IF body.threw
           THEN /\ procs' = [LiveProcs EXCEPT ![p] = Threw(rec, "item")]
                /\ UNCHANGED <<storage, lastWrite>>
           ELSE IF ~res.ok
           THEN /\ procs' = [LiveProcs EXCEPT ![p] = Threw(rec, "write")]
                /\ UNCHANGED <<storage, lastWrite>>
           ELSE /\ procs' = [Overlap(p) EXCEPT ![p] = Returned(rec, Undefined)]
                /\ storage' = res.storage
                /\ lastWrite' = [op |-> "clearProgress", type |-> rec.type,
                                 id |-> rec.id, position |-> Num(0)]
    /\ UNCHANGED <<opsStarted, now>>

\* clearAll: localStorage.removeItem
ClearAll(removeItemThrows, maxOps) ==
    /\ LET rec == NewProc("clearAll", MOVIE, ID_empty, Num(0), Num(0), Num(0), <<>>)
       IN  IF removeItemThrows \/ storage.kind = "denied"
           THEN /\ Start(Threw(rec, "write"), maxOps)
                /\ UNCHANGED <<storage, lastWrite>>
           ELSE /\ opsStarted < maxOps
                /\ \E p \in Procs :
                      /\ ~Running(p)
                      /\ \A q \in Procs : q < p => Running(q)
                      /\ procs' = [Overlap(p) EXCEPT ![p] = Returned(rec, Undefined)]
                /\ opsStarted' = opsStarted + 1
                /\ storage' = Missing
                /\ lastWrite' = [op |-> "clearAll", type |-> MOVIE, id |-> ID_empty,
                                 position |-> Num(0)]
    /\ UNCHANGED now

\* pruneOldEntries up to `await this.getAll()`
PruneCall(maxAgeDays, maxOps) ==
    /\ LET rec == NewProc("pruneOldEntries", MOVIE, ID_empty, Num(0), Num(0),
                          maxAgeDays, getAll(storage))
       IN  IF BadMaxAge(maxAgeDays)
           THEN Start(Threw(rec, "arguments"), maxOps)
           ELSE Start(rec, maxOps)
    /\ UNCHANGED <<storage, lastWrite, now>>

\* the rest of pruneOldEntries
PruneResume(p, setItemThrows) ==
    /\ Running(p)
    /\ procs[p].op = "pruneOldEntries"
    /\ LET rec  == [procs[p] EXCEPT !.before = getAll(storage),
                                    !.writeThrew = setItemThrows \/ storage.kind = "denied"]
           body == pruneData(rec.data, rec.maxAgeDays, now)
           res  == saveAll(body.data, storage, setItemThrows)
       IN  IF body.threw
           THEN /\ procs' = [LiveProcs EXCEPT ![p] = Threw(rec, "item")]
                /\ UNCHANGED <<storage, lastWrite>>
           ELSE IF ~res.ok
           THEN /\ procs' = [LiveProcs EXCEPT ![p] = Threw(rec, "write")]
                /\ UNCHANGED <<storage, lastWrite>>
           ELSE /\ procs' = [Overlap(p) EXCEPT ![p] = Returned(rec, Undefined)]
                /\ storage' = res.storage
                /\ lastWrite' = [op |-> "pruneOldEntries", type |-> MOVIE,
                                 id |-> ID_empty, position |-> Num(0)]
    /\ UNCHANGED <<opsStarted, now>>

\* Date.now() is the wall clock: it advances, and it can be set back.
TickDay ==
    /\ now + DayMs <= MaxDbDays * DayMs
    /\ now' = now + DayMs
    /\ procs' = LiveProcs
    /\ UNCHANGED <<storage, lastWrite, opsStarted>>

ClockBack ==
    /\ now >= DayMs
    /\ now' = now - DayMs
    /\ procs' = LiveProcs
    /\ UNCHANGED <<storage, lastWrite, opsStarted>>

\* new Database(): the constructor has called pruneOldEntries(), which has read
\* the medium and is suspended.
StartupPrune(st) ==
    [NewProc("pruneOldEntries", MOVIE, ID_empty, Num(0), Num(0),
             Num(DEFAULT_MAX_AGE_DAYS), getAll(st))
        EXCEPT !.startup = TRUE, !.after = NoWrite, !.medium = st]

DbInitFrom(st) ==
    /\ storage = st
    /\ lastWrite = NoWrite
    /\ opsStarted = 0
    /\ procs = [p \in Procs |-> IF p = 1 THEN StartupPrune(st) ELSE Idle]

(***************************************************************************)
(* The session: authenticate and the stream URLs.                          *)
(* A login is one authenticate call: the fetchWithRetry chain it awaits    *)
(* (no signal is passed), and, once the chain has settled, what the call   *)
(* returned.  A finished login is shown in one state and then forgotten.   *)
(***************************************************************************)
MaxAuthCalls == 2     \* authenticate calls in SpecAuth
MaxAuthTicks == 8     \* seconds of clock in SpecAuth
MaxUrlCalls == 1     \* service calls in SpecUrl
MaxUrlBuilds == 2     \* stream URLs built in SpecUrl

Slash == <<"/">>

\* a string of the examples below
Text(c) == <<c>>

Config(baseUrl, username, password) ==
    [baseUrl |-> baseUrl, username |-> username, password |-> password]

\* process.env.XTREAM_* || ''
ConfigStates == {Config(Text("h"), Text("u"), Text("p")), Config(<<>>, <<>>, <<>>)}

UserInfo(auth, username) == [t |-> "object", auth |-> auth, username |-> username]

LoginData(user_info) == [t |-> "object", user_info |-> user_info]

\* decoded bodies of the login response
LoginBodies ==
    {Null,
     LoginData(Undefined),
     LoginData(UserInfo(Num(1), Str(Text("u")))),
     LoginData(UserInfo(Num(0), Str(Text("u")))),
     LoginData(UserInfo(Str(Text("1")), Str(Text("u"))))}

\* the try block of authenticate after the await: [threw, ok, userInfo]
authenticateBody_loose(data, ui) ==
    IF data.t \in {"null", "undefined"}
    THEN [threw |-> TRUE, ok |-> FALSE, userInfo |-> ui]
    ELSE IF Truthy(data.user_info) /\ ToNumber(data.user_info.auth) = Num(1)
    THEN [threw |-> FALSE, ok |-> TRUE, userInfo |-> data.user_info]
    ELSE [threw |-> FALSE, ok |-> FALSE, userInfo |-> ui]

authenticateBody(data, ui) ==
    IF data.t \in {"null", "undefined"}
    THEN [threw |-> TRUE, ok |-> FALSE, userInfo |-> ui]
    ELSE IF Truthy(data.user_info) /\ StrictEq(data.user_info.auth, Num(1))
    THEN [threw |-> FALSE, ok |-> TRUE, userInfo |-> data.user_info]
    ELSE [threw |-> FALSE, ok |-> FALSE, userInfo |-> ui]

NewLogin ==
    NewChain("auth", <<>>, 0, FALSE) @@
        [returned |-> Value(Undefined), before |-> Null]

LoginLive(l) == l \in DOMAIN logins /\ logins[l].pc \in {"fetching", "waiting"}

LiveLogins ==
    [l \in DOMAIN logins |-> IF LoginLive(l) THEN logins[l] ELSE Gone]

\* authenticate up to `await this.fetchWithRetry(url)`
Authenticate(maxCalls) ==
    /\ Len(logins) < maxCalls
    /\ logins' = Append(LiveLogins, NewLogin)
    /\ UNCHANGED <<config, userInfo, built>>

\* the chain of login l has become ch2; when it has settled the rest of
\* authenticate runs
LoginStep(l, ch2) ==
    /\ IF ~Settled(ch2)
       THEN /\ logins' = [LiveLogins EXCEPT ![l] = ch2]
            /\ UNCHANGED userInfo
       ELSE LET body == IF ch2.pc = "resolved"
                        THEN authenticateBody(ch2.result, userInfo)
                        ELSE [threw |-> TRUE, ok |-> FALSE, userInfo |-> userInfo]
            IN  /\ userInfo' = body.userInfo
                /\ logins' = [LiveLogins EXCEPT ![l] =
                                 [ch2 EXCEPT !.returned = Value(body.ok),
                                             !.before = userInfo]]
    /\ UNCHANGED <<config, built>>

LoginRespondOk(l, body) ==
    /\ LoginLive(l)
    /\ logins[l].pc = "fetching"
    /\ LoginStep(l, AttemptOk(logins[l], body))

LoginRespondFail(l, kind) ==
    /\ LoginLive(l)
    /\ logins[l].pc = "fetching"
    /\ LoginStep(l, AttemptFailed(logins[l], ErrorOf(kind, logins[l].attempts), now))

LoginTimerFire(l) ==
    /\ LoginLive(l)
    /\ logins[l].pc = "waiting"
    /\ logins[l].deadline <= now
    /\ LoginStep(l, RetryStarted(logins[l], FALSE, now))

NoLoginTimerDue ==
    \A l \in DOMAIN logins : logins[l].pc = "waiting" => logins[l].deadline > now

\* getLiveStreamUrl / getMovieStreamUrl / getSeriesStreamUrl
getLiveStreamUrl_swapped(cfg, stream_id) ==
    cfg.baseUrl \o Slash \o <<"l", "i", "v", "e">> \o Slash \o cfg.password
        \o Slash \o cfg.username \o Slash \o ToStr(stream_id)

getLiveStreamUrl(cfg, stream_id) ==
    cfg.baseUrl \o Slash \o <<"l", "i", "v", "e">> \o Slash \o cfg.username
        \o Slash \o cfg.password \o Slash \o ToStr(stream_id)

getMovieStreamUrl(cfg, movie_id) ==
    cfg.baseUrl \o Slash \o STR_movie \o Slash \o cfg.username
        \o Slash \o cfg.password \o Slash \o ToStr(movie_id)

getSeriesStreamUrl(cfg, series_id) ==
    cfg.baseUrl \o Slash \o <<"s", "e", "r", "i", "e", "s">> \o Slash \o cfg.username
        \o Slash \o cfg.password \o Slash \o ToStr(series_id)

UrlKinds == {"live", "movie", "series"}

UrlIds == {Num(7), Str(<<"4", "2">>)}

NotBuilt == [set |-> FALSE, n |-> 0]

BuildUrl(kind, id) ==
    /\ built.n < MaxUrlBuilds
    /\ built' = [set |-> TRUE, n |-> built.n + 1, kind |-> kind, id |-> id,
                 url |-> CASE kind = "live"   -> getLiveStreamUrl(config, id)
                           [] kind = "movie"  -> getMovieStreamUrl(config, id)
                           [] kind = "series" -> getSeriesStreamUrl(config, id)]
    /\ logins' = LiveLogins
    /\ UNCHANGED <<config, userInfo>>

AuthStart(cfg) ==
    /\ config = cfg
    /\ userInfo = Null
    /\ logins = <<>>
    /\ built = NotBuilt

\* the session left alone
AuthIdle == AuthStart(Config(<<>>, <<>>, <<>>))

(***************************************************************************)
(* IntegratedPlayer.  A load is one run of loadContent; its AbortController *)
(* is named by the run.  loadContent passes no signal to getEPG and         *)
(* getMovieInfo, so aborting a controller rejects no request: the awaited   *)
(* call ends with the answer of the service or with its failure.  React     *)
(* ignores a state setter called after the component has unmounted.         *)
(***************************************************************************)
Contents ==
    {[type |-> "live", id |-> 1], [type |-> "live", id |-> 2],
     [type |-> "movie", id |-> 7], [type |-> "series", id |-> 3]}

\* what getMovieInfo resolves with: the audio tracks of the movie
MovieAnswers == {<<>>, <<5>>}

NoContent == [type |-> "none", id |-> 0]

NewLoad(c, pc) == [type |-> c.type, id |-> c.id, pc |-> pc, cleaned |-> FALSE]

\* `epg && epg.length > 0`
HasProgrammes(epg) == Truthy(epg) /\ Len(epg.items) > 0

\* streamData of run r; `load` and `epgFrom` are ghosts naming the run that
\* supplied the value
StreamData(r, c, epgData, audioTracks) ==
    [load |-> r, url |-> <<c.type, c.id>>, epgData |-> epgData, epgFrom |-> r,
     audioTracks |-> audioTracks]

\* if (abortController.current) abortController.current.abort()
Aborting(sig, ctrl) == IF ctrl # 0 THEN sig \cup {ctrl} ELSE sig

\* if (epgUpdateInterval.current) clearInterval(epgUpdateInterval.current)
Cleared(ivs, ref) ==
    IF ref # 0 THEN [ivs EXCEPT ![ref].active = FALSE] ELSE ivs

\* ghost: the effect that started these runs has been cleaned up
Cleaned(lds) == [r \in DOMAIN lds |-> [lds[r] EXCEPT !.cleaned = TRUE]]

\* loadContent up to its first await (to its end for a series), for props c,
\* when `sig` are the aborted controllers and `lds` the runs so far
loadContent(c, sig, lds) ==
    /\ signalled' = Aborting(sig, abortController)
    /\ abortController' = Len(lds) + 1
    /\ playerError' = Null
    /\ content' = c
    /\ IF c.type = "series"
       THEN /\ loads' = Append(lds, NewLoad(c, "done"))
            /\ streamInfo' = StreamData(Len(lds) + 1, c, Undefined, <<>>)
            /\ loading' = FALSE
       ELSE /\ loads' = Append(lds, NewLoad(c, IF c.type = "live" THEN "awaitEPG"
                                                                  ELSE "awaitMovie"))
            /\ loading' = TRUE
            /\ UNCHANGED streamInfo

\* first render: the effect runs loadContent
Mount(c) ==
    /\ ~mounted /\ loads = <<>>
    /\ mounted' = TRUE
    /\ loadContent(c, signalled, loads)
    /\ UNCHANGED <<epgUpdateInterval, intervals, selectedAudioId>>

\* contentType or contentId changes: the cleanup of the previous effect, then
\* the new effect
ChangeContent(c, maxLoads) ==
    /\ mounted /\ c # content
    /\ Len(loads) < maxLoads
    /\ intervals' = Cleared(intervals, epgUpdateInterval)
    /\ loadContent(c, Aborting(signalled, abortController), Cleaned(loads))
    /\ UNCHANGED <<mounted, epgUpdateInterval, selectedAudioId>>

\* the component unmounts: the cleanup of the effect
Unmount ==
    /\ mounted
    /\ mounted' = FALSE
    /\ signalled' = Aborting(signalled, abortController)
    /\ intervals' = Cleared(intervals, epgUpdateInterval)
    /\ loads' = Cleaned(loads)
    /\ UNCHANGED <<content, abortController, epgUpdateInterval, streamInfo, loading,
                   playerError, selectedAudioId>>

\* run r resumes from `await xtreamService.getEPG(contentId)` with epg
EpgArrives(r, epg) ==
    /\ r \in DOMAIN loads /\ loads[r].pc = "awaitEPG"
    /\ loads' = [loads EXCEPT ![r].pc = "done"]
    /\ IF HasProgrammes(epg)
       THEN /\ intervals' = Append(intervals, [owner |-> r, active |-> TRUE])
            /\ epgUpdateInterval' = Len(intervals) + 1
       ELSE UNCHANGED <<intervals, epgUpdateInterval>>
    /\ IF mounted
       THEN /\ streamInfo' = StreamData(r, loads[r],
                                 IF HasProgrammes(epg) THEN epg ELSE Undefined, <<>>)
            /\ loading' = FALSE
       ELSE UNCHANGED <<streamInfo, loading>>
    /\ UNCHANGED <<mounted, content, abortController, signalled, playerError,
                   selectedAudioId>>

\* run r resumes from `await xtreamService.getMovieInfo(contentId)`
MovieArrives(r, audioTracks) ==
    /\ r \in DOMAIN loads /\ loads[r].pc = "awaitMovie"
    /\ loads' = [loads EXCEPT ![r].pc = "done"]
    /\ IF mounted
       THEN /\ selectedAudioId' = IF audioTracks # <<>> THEN audioTracks[1]
                                                        ELSE selectedAudioId
            /\ streamInfo' = StreamData(r, loads[r], Undefined, audioTracks)
            /\ loading' = FALSE
       ELSE UNCHANGED <<selectedAudioId, streamInfo, loading>>
    /\ UNCHANGED <<mounted, content, abortController, signalled, epgUpdateInterval,
                   intervals, playerError>>

\* the awaited call of run r rejects with the failure of its last attempt (not
\* an AbortError: the request has no signal); the catch block
LoadFails(r) ==
    /\ r \in DOMAIN loads /\ loads[r].pc \in {"awaitEPG", "awaitMovie"}
    /\ loads' = [loads EXCEPT ![r].pc = "done"]
    /\ IF mounted
       THEN /\ playerError' = [t |-> "error", name |-> "Error", load |-> r]
            /\ loading' = FALSE
       ELSE UNCHANGED <<playerError, loading>>
    /\ UNCHANGED <<mounted, content, abortController, signalled, epgUpdateInterval,
                   intervals, streamInfo, selectedAudioId>>

\* the callback of interval i with the answer of its getEPG call:
\* setStreamInfo(prev => prev ? {...prev, epgData} : null)
IntervalFires(i, updatedEpg) ==
    /\ i \in DOMAIN intervals /\ intervals[i].active
    /\ streamInfo' =
           IF mounted /\ HasProgrammes(updatedEpg) /\ streamInfo # Null
           THEN [streamInfo EXCEPT !.epgData = updatedEpg,
                                   !.epgFrom = intervals[i].owner]
           ELSE streamInfo
    /\ UNCHANGED <<mounted, content, loads, abortController, signalled,
                   epgUpdateInterval, intervals, loading, playerError,
                   selectedAudioId>>

\* useState / useRef initial values, before the first render
PlayerIdle ==
    /\ mounted = FALSE
    /\ content = NoContent
    /\ loads = <<>>
    /\ abortController = 0
    /\ signalled = {}
    /\ epgUpdateInterval = 0
    /\ intervals = <<>>
    /\ streamInfo = Null
    /\ loading = TRUE
    /\ playerError = Null
    /\ selectedAudioId = Null

\* C35 (SpecPlayer): every EPG auto-update interval that is scheduled was
\* created by a loadContent run whose effect has not been cleaned up, and at
\* most one interval is scheduled.
NoOrphanTimer ==
    /\ \A i \in DOMAIN intervals :
           intervals[i].active => ~loads[intervals[i].owner].cleaned
    /\ Cardinality({i \in DOMAIN intervals : intervals[i].active}) <= 1

\* C36 (SpecPlayer): a loadContent run whose AbortController has been aborted
\* ends without changing streamInfo, selectedAudioId or error.
SupersededLoadSilent ==
    [][\A r \in DOMAIN loads :
          r \in signalled /\ loads[r].pc # "done" /\ loads'[r].pc = "done" =>
              UNCHANGED <<streamInfo, selectedAudioId, playerError>>]_vars

\* the progress store left alone
DbIdle ==
    /\ storage = Missing
    /\ procs = [p \in Procs |-> Idle]
    /\ opsStarted = 0
    /\ lastWrite = NoWrite

(***************************************************************************)
(* Properties of the response cache, the deduplicator and the fetcher.     *)
(***************************************************************************)
Shown(rec) == rec.pc # "gone"

\* C1 (SpecCache): a value stored by cacheSet with ttl T at time t0, and not
\* overwritten or invalidated since, is what every cacheGet of its key at a time
\* t < t0 + T returns; every cacheGet at t >= t0 + T answers null and leaves no
\* entry under the key.
CacheTTL ==
    \A x \in DOMAIN callers :
        Shown(callers[x]) /\ callers[x].lookup.set =>
            LET l == callers[x].lookup
            IN  IF l.fresh
                THEN l.result = l.data /\ l.present
                ELSE l.result = Null /\ ~l.present

\* a lookup at or after the expiry of a stored value
CacheTTLWitness ==
    \E x \in DOMAIN callers :
        /\ Shown(callers[x])
        /\ callers[x].lookup.set
        /\ ~callers[x].lookup.fresh
        /\ callers[x].lookup.data # Null
        /\ callers[x].lookup.result = Null

\* C2 (SpecDedup): two calls of the same operation with the same key, the second
\* issued on a cache miss while the first is still waiting, are served by one
\* upstream call and get the same outcome at the same time.
Deduplication ==
    \A y \in DOMAIN callers :
        Shown(callers[y]) =>
            \A x \in callers[y].overlap :
                /\ Shown(callers[x])
                /\ callers[x].chain = callers[y].chain
                /\ callers[x].pc = callers[y].pc
                /\ callers[x].outcome = callers[y].outcome

\* C3 (SpecFetch): a fetchWithRetry call whose attempts all fail with a transport
\* failure or a non-2xx status asks for the delays 1000, 2000, 5000 in that order,
\* waits each of them out before the next attempt, and is rejected only after its
\* 4th attempt, with the error of that attempt; no call makes a 5th attempt.
OnlyPlainFailures(ch) ==
    \A i \in DOMAIN ch.errs : ch.errs[i].name \in {"Error", "TypeError"}

RetryBudget ==
    \A c \in DOMAIN chains :
        Shown(chains[c]) =>
            LET ch == chains[c]
            IN  /\ ch.attempts <= 4
                /\ OnlyPlainFailures(ch) =>
                     /\ Len(ch.delays) = IF Len(ch.errs) < 4 THEN Len(ch.errs) ELSE 3
                     /\ \A i \in DOMAIN ch.delays :
                           i <= 3 /\ ch.delays[i] = <<1000, 2000, 5000>>[i]
                     /\ Len(ch.waits) = ch.attempts - 1
                     /\ \A i \in DOMAIN ch.waits :
                           i \in DOMAIN ch.delays /\ ch.waits[i] = ch.delays[i]
                     /\ ch.pc = "rejected" =>
                          /\ ch.attempts = 4
                          /\ Len(ch.errs) = 4
                          /\ ch.result = ch.errs[4]
                          /\ ch.result.attempt = 4

\* a call rejected after four failed attempts
RetryBudgetWitness ==
    \E c \in DOMAIN chains :
        /\ Shown(chains[c])
        /\ chains[c].pc = "rejected"
        /\ OnlyPlainFailures(chains[c])
        /\ chains[c].attempts = 4
        /\ chains[c].waits = <<1000, 2000, 5000>>

\* C4 (SpecFetch): once the caller's signal has fired during a fetchWithRetry
\* call, the call is rejected with AbortError at once (it is not left waiting for
\* the backoff timer) and starts no further network attempt.
CancellationPrecedence ==
    \A c \in DOMAIN chains :
        Shown(chains[c]) /\ chains[c].cancelled =>
            /\ chains[c].pc = "rejected"
            /\ chains[c].result.name = "AbortError"
            /\ chains[c].lateAttempts = 0

\* C5 (SpecCache): clearCache(k) leaves no entry that the operation of kind k
\* stored, and leaves every entry of the other two kinds as it was.
InvalidationScope ==
    [][\A type \in Ops :
          ClearCache(type) =>
              /\ \A key \in DOMAIN cache' : stored[key].op # type
              /\ \A key \in DOMAIN cache :
                    stored[key].op # type =>
                        key \in DOMAIN cache' /\ cache'[key] = cache[key]]_vars

(***************************************************************************)
(* Properties of the progress store.                                       *)
(***************************************************************************)
Finished(rec) == rec.pc \in {"done", "failed"}

Items == getAll(storage)

IsFailure(outcome) == outcome.kind = "error"

\* C6 (SpecDb): a getProgress(kind, id) that follows a completed
\* saveProgress(kind, id, p, d) with a non-empty id and p >= 0 returns p (so a
\* second save replaces the first); and a completed save that no other write
\* overlapped leaves getProgress of every other (kind, id) as it was.
ProgressRoundTrip ==
    /\ \A p \in Procs :
          LET rec == procs[p]
          IN  /\ Finished(rec)
              /\ rec.op = "getProgress"
              /\ rec.after.op = "saveProgress"
              /\ rec.after.type = rec.type
              /\ rec.after.id = rec.id
              /\ rec.id # ID_empty
              /\ rec.after.position.t \in {"number", "Infinity"}
              /\ rec.after.position.t = "number" => rec.after.position.v >= 0
              => /\ rec.result = Value(rec.after.position)
                 /\ rec.seen = rec.result
    /\ \A p \in Procs :
          LET rec == procs[p]
          IN  /\ rec.pc = "done"
              /\ rec.op = "saveProgress"
              /\ ~rec.overlapped
              => \A k \in DbKeys :
                    k # <<rec.type, rec.id>> =>
                        getProgressValue(Items, k[1], k[2])
                            = getProgressValue(rec.before, k[1], k[2])

BulkId(n) == Str(Digits(n))

\* C7 (SpecBulk): the persisted collection never holds more than MAX_ENTRIES
\* records, and after MaxBulkSaves sequential saves with distinct ids it holds
\* exactly the MAX_ENTRIES most recently written ones, oldest first.
BoundedStorage ==
    /\ Len(Items) <= 100
    /\ (opsStarted = MaxBulkSaves /\ \A p \in Procs : ~Running(p)) =>
          /\ Len(Items) = 100
          /\ \A i \in 1..100 :
                i \in DOMAIN Items /\ Items[i].id = BulkId(MaxBulkSaves - 100 + i)

WellFormed(item) ==
    /\ item.t = "object"
    /\ item.type \in {MOVIE, SERIES}
    /\ item.id.t = "string"
    /\ item.position.t = "number"
    /\ item.duration.t = "number"
    /\ item.timestamp.t = "number"

\* 0 <= now - timestamp <= days * DayMs
AgeWithin(item, days) ==
    /\ item.timestamp.t = "number"
    /\ now - item.timestamp.v >= 0
    /\ \/ (now - item.timestamp.v) \div DayMs < days
       \/ (now - item.timestamp.v) = days * DayMs

NoRecord(data, type, id) ==
    \A i \in DOMAIN data :
        ~(data[i].t = "object" /\ data[i].type = type /\ data[i].id = id)

\* C9 (SpecMedium): whatever the medium holds, getProgress and getWatchProgress
\* return a number >= 0, which is 0 when the medium holds no record of
\* (kind, id), and no step of getProgress changes the medium.
BestEffortRead ==
    [][/\ \A k \in DbKeys \cup {<<MOVIE, ID_empty>>} :
             GetCall(k[1], k[2], MaxMediumOps) => storage' = storage
       /\ \A p \in Procs :
             GetResume(p) =>
                 /\ storage' = storage
                 /\ procs'[p].pc = "done"
                 /\ procs'[p].result.kind = "value"
                 /\ procs'[p].result.v.t = "number"
                 /\ procs'[p].result.v.v >= 0
                 /\ procs'[p].seen = procs'[p].result
                 /\ NoRecord(procs[p].data, procs[p].type, procs[p].id) =>
                        procs'[p].result.v = Num(0)]_vars

WriteOps == {"saveProgress", "clearProgress", "pruneOldEntries", "clearAll"}

\* C10 (SpecWrite): a writing call whose arguments are refused or whose write to
\* the medium throws is rejected, saveWatchProgress hands the rejection on, and
\* the medium holds what it held when the call started (no other write having
\* come in between).
FailedWrite ==
    \A p \in Procs :
        LET rec == procs[p]
        IN  Finished(rec) /\ rec.op \in WriteOps =>
              /\ rec.writeThrew => rec.pc = "failed"
              /\ (/\ rec.op = "saveProgress"
                  /\ \/ rec.position.t \notin {"number", "NaN", "Infinity", "-Infinity"}
                     \/ rec.duration.t \notin {"number", "NaN", "Infinity", "-Infinity"})
                 => rec.pc = "failed"
              /\ rec.pc = "failed" =>
                    /\ IsFailure(rec.result)
                    /\ IsFailure(rec.seen)
                    /\ ~rec.overlapped => storage = rec.medium

\* a save whose write threw, the medium holding a record
FailedWriteWitness ==
    \E p \in Procs :
        /\ procs[p].pc = "failed"
        /\ procs[p].op = "saveProgress"
        /\ procs[p].writeThrew
        /\ IsFailure(procs[p].seen)
        /\ Items # <<>>
        /\ storage = procs[p].medium

SameKey(a, b) == a.t = "object" /\ b.t = "object" /\ a.type = b.type /\ a.id = b.id

\* C21 (SpecDb): the persisted collection holds at most one record per
\* (kind, id), whatever calls of saveProgress, clearProgress, clearAll and
\* pruneOldEntries have run and however they interleaved.
RecordUniqueness ==
    \A i, j \in DOMAIN Items : i # j => ~SameKey(Items[i], Items[j])

\* a save has replaced the record of its key while another call was in progress
RecordUniquenessWitness ==
    \E p \in Procs :
        /\ procs[p].pc = "done"
        /\ procs[p].op = "saveProgress"
        /\ \E q \in Procs : q # p /\ Running(q) /\ procs[q].overlapped
        /\ \E i \in DOMAIN procs[p].data :
               /\ procs[p].data[i].type = procs[p].type
               /\ procs[p].data[i].id = procs[p].id
        /\ Len(Items) = 2
        /\ Items[2].type = procs[p].type /\ Items[2].id = procs[p].id

\* C22 (SpecEvict): a save that takes the collection above MAX_ENTRIES records
\* evicts the records with the smallest timestamps: no record it dropped was
\* updated later than a record it kept.
EvictionOrder ==
    \A p \in Procs :
        LET rec == procs[p]
        IN  /\ rec.pc = "done"
            /\ rec.op = "saveProgress"
            /\ ~rec.overlapped
            /\ Len(rec.before) = MAX_ENTRIES
            => \A i \in DOMAIN rec.before :
                  (\A j \in DOMAIN Items : ~SameKey(rec.before[i], Items[j])) =>
                      \A j \in DOMAIN Items :
                          rec.before[i].timestamp.v <= Items[j].timestamp.v

\* C23 (SpecMedium): what a call reads from the medium holds only records of
\* the shape {type, id, position, duration, timestamp}, malformed entries having
\* been discarded by the read, and no call fails over a stored entry.
SchemaOnRead ==
    \A p \in Procs :
        Finished(procs[p]) =>
            /\ \A i \in DOMAIN procs[p].data : WellFormed(procs[p].data[i])
            /\ procs[p].cause # "item"

Tracked(data, k) == ~NoRecord(data, k[1], k[2])

\* the state a completed clearProgress or clearAll leaves
Deleted ==
    \A p \in Procs :
        LET rec == procs[p]
        IN  /\ rec.pc = "done" /\ rec.op = "clearProgress" =>
                /\ ~Tracked(Items, <<rec.type, rec.id>>)
                /\ getProgressValue(Items, rec.type, rec.id) = Num(0)
                /\ ~rec.overlapped =>
                       LET Other(item) == /\ WellFormed(item)
                                          /\ ~(item.type = rec.type /\ item.id = rec.id)
                       IN  SelectSeq(Items, Other) = SelectSeq(rec.before, Other)
            /\ rec.pc = "done" /\ rec.op = "clearAll" =>
                /\ Items = <<>>
                /\ \A k \in DbKeys : getProgressValue(Items, k[1], k[2]) = Num(0)

Clamped(x) == IF x.t = "number" /\ x.v < 0 THEN Num(0) ELSE x

NotNegative(x) == x.t = "number" => x.v >= 0

\* C30 (SpecDb): the record a completed saveProgress has written carries
\* max(0, position) and max(0, duration) of the values given; no record of the
\* store has a negative position or duration; getProgress returns no negative
\* number.
NonNegativeProgress ==
    /\ \A i \in DOMAIN Items :
           NotNegative(Items[i].position) /\ NotNegative(Items[i].duration)
    /\ \A p \in Procs :
           LET rec == procs[p]
           IN  /\ rec.pc = "done" /\ rec.op = "saveProgress" =>
                   /\ Items # <<>>
                   /\ Items[Len(Items)] =
                          JsonItem(Progress(rec.type, rec.id, Clamped(rec.position),
                                            Clamped(rec.duration), Num(now)))
               /\ Finished(rec) /\ rec.op = "getProgress" =>
                   /\ rec.result.kind = "value"
                   /\ rec.result.v.t = "number"
                   /\ rec.result.v.v >= 0

\* a save given a negative position has stored 0, and a read has returned 0
NonNegativeProgressWitness ==
    \E p \in Procs :
        /\ procs[p].pc = "done" /\ procs[p].op = "getProgress"
        /\ procs[p].after.op = "saveProgress"
        /\ procs[p].after.position = Num(0 - 5)
        /\ procs[p].after.type = procs[p].type /\ procs[p].after.id = procs[p].id
        /\ procs[p].result = Value(Num(0))
        /\ \E i \in DOMAIN Items :
               /\ Items[i].type = procs[p].type /\ Items[i].id = procs[p].id
               /\ Items[i].position = Num(0)

\* C31 (SpecDb): a saveProgress that completes keeps the well-formed records of
\* the other keys that the store held just before its write, those written by
\* a save that overlapped it included: of two overlapping saves of different
\* keys both records are in the store once both have completed.
NoLostUpdate ==
    \A p \in Procs :
        LET rec == procs[p]
        IN  rec.pc = "done" /\ rec.op = "saveProgress" =>
                \A i \in DOMAIN rec.before :
                    /\ WellFormed(rec.before[i])
                    /\ ~(rec.before[i].type = rec.type /\ rec.before[i].id = rec.id)
                    => Tracked(Items, <<rec.before[i].type, rec.before[i].id>>)

\* C32 (SpecDb): a saveProgress writes back no record that a clearProgress or a
\* pruneOldEntries removed while the save was suspended: after its write, the
\* only key that can have a record it did not have just before is the save's own.
RemovalStands ==
    \A p \in Procs :
        LET rec == procs[p]
        IN  rec.pc = "done" /\ rec.op = "saveProgress" =>
                \A k \in DbKeys :
                    k # <<rec.type, rec.id>> /\ Tracked(Items, k) =>
                        Tracked(rec.before, k)

\* the collection a writing call hands to saveAll (none when it threw before)
Handed(rec) ==
    CASE rec.op = "saveProgress" ->
            saveProgressData(rec.data, rec.type, rec.id, rec.position, rec.duration, now)
      [] rec.op = "clearProgress" -> clearProgressData(rec.data, rec.type, rec.id)
      [] rec.op = "pruneOldEntries" -> pruneData(rec.data, rec.maxAgeDays, now)
      [] OTHER -> [threw |-> TRUE, data |-> <<>>]

\* C11 (SpecMedium): a writing call that hands saveAll a collection holding a
\* record that does not match the schema is rejected and leaves the medium as it
\* was: no part of the collection is written.
ValidatedCommit ==
    \A p \in Procs :
        LET rec == procs[p]
        IN  /\ Finished(rec)
            /\ rec.op \in {"saveProgress", "clearProgress", "pruneOldEntries"}
            /\ rec.cause # "arguments"
            /\ ~Handed(rec).threw
            /\ \E i \in DOMAIN Handed(rec).data : ~WellFormed(Handed(rec).data[i])
            => /\ rec.pc = "failed"
               /\ IsFailure(rec.result)
               /\ storage = rec.medium

\* the response carries user_info with auth = 1
Authorized(data) ==
    /\ data.t = "object"
    /\ data.user_info.t = "object"
    /\ data.user_info.auth = Num(1)

LoginDone(l) == l \in DOMAIN logins /\ Shown(logins[l]) /\ Settled(logins[l])

\* C12 (SpecAuth): an authenticate call never rejects; it returns true exactly
\* when its request was answered with user_info.auth = 1, and then the session
\* state is that user_info; a call that returns false (any other answer, or the
\* request failing after its retries) leaves the session state as it was.
AuthenticateOutcome ==
    \A l \in DOMAIN logins :
        LoginDone(l) =>
            LET lg == logins[l]
                ok == lg.pc = "resolved" /\ Authorized(lg.result)
            IN  /\ lg.returned = Value(ok)
                /\ ok => userInfo = lg.result.user_info
                /\ ~ok => userInfo = lg.before

\* a call that returned false after a session had been stored
AuthenticateWitness ==
    \E l \in DOMAIN logins :
        /\ LoginDone(l)
        /\ logins[l].returned = Value(FALSE)
        /\ logins[l].pc = "rejected"
        /\ userInfo # Null

\* C13 (SpecDedup): the pending registry holds exactly the getLiveStreams
\* requests in flight: a request is registered in the step that starts it and
\* unregistered in the step that settles it, fulfilled or rejected; a caller
\* handed a pending promise is waiting for a request still in flight, never for
\* one that has already failed.
DedupLifecycle ==
    /\ \A k \in DOMAIN pendingRequests :
           LET c == pendingRequests[k]
           IN  /\ InFlight(c)
               /\ Deduplicated(chains[c].op)
               /\ PendingKey(chains[c].key) = k
    /\ \A c \in DOMAIN chains :
           InFlight(c) /\ Deduplicated(chains[c].op) =>
               /\ PendingKey(chains[c].key) \in DOMAIN pendingRequests
               /\ pendingRequests[PendingKey(chains[c].key)] = c
    /\ \A x \in DOMAIN callers :
           /\ callers[x].pc = "waiting" => InFlight(callers[x].chain)
           /\ callers[x].pc = "done" /\ callers[x].role # "hit" =>
                  LET ch == chains[callers[x].chain]
                  IN  /\ Shown(ch) /\ Settled(ch)
                      /\ callers[x].outcome =
                             IF ch.pc = "resolved" THEN Value(ch.result)
                                                   ELSE Failure(ch.result)

\* a shared getLiveStreams request has just failed for both of its callers and
\* its registration is gone
DedupLifecycleWitness ==
    \E c \in DOMAIN chains :
        /\ Shown(chains[c]) /\ chains[c].pc = "rejected"
        /\ Deduplicated(chains[c].op)
        /\ PendingKey(chains[c].key) \notin DOMAIN pendingRequests
        /\ \E x, y \in DOMAIN callers :
               /\ x # y
               /\ callers[x].pc = "done" /\ callers[x].chain = c
               /\ callers[y].pc = "done" /\ callers[y].chain = c
               /\ callers[y].role = "joined"

\* C14 (SpecDedup): when a caller of a shared getLiveStreams request aborts its
\* signal, every other caller waiting for that request is still waiting after
\* the step, and the request itself has not been cancelled.
GroupCancellation ==
    [][\A x \in DOMAIN callers :
          Abort(x) =>
              \A y \in DOMAIN callers \ {x} :
                  callers[y].pc = "waiting" /\ callers[y].chain = callers[x].chain =>
                      /\ callers'[y].pc = "waiting"
                      /\ ~chains'[callers[y].chain].cancelled]_vars

\* C15 (SpecFail): a service call that fails leaves the cache as it found it:
\* no step of a request other than its success changes the cache (a failed
\* attempt, a retry, an abort, the rejection itself), and the call's own lookup
\* removes nothing but an expired entry of its key and adds nothing.
FailedFetchFrame ==
    [][/\ \A c \in DOMAIN chains :
             InFlight(c) /\ chains'[c] # chains[c] /\ chains'[c].pc # "resolved" =>
                 cache' = cache
       /\ Len(callers') > Len(callers) =>
             /\ DOMAIN cache' \subseteq DOMAIN cache
             /\ \A k \in DOMAIN cache :
                    ~Expired(cache[k], now) =>
                        k \in DOMAIN cache' /\ cache'[k] = cache[k]]_vars

\* a call has just failed after all its retries while the cache holds, under
\* its key, what an earlier call had stored
FailedFetchFrameWitness ==
    \E c \in DOMAIN chains :
        /\ Shown(chains[c]) /\ chains[c].pc = "rejected"
        /\ chains[c].attempts = Len(retryDelays) + 1
        /\ chains[c].key \in DOMAIN cache
        /\ cache[chains[c].key].data = Arr(<<2, 1>>)
        /\ cache[chains[c].key].timestamp < now

\* C16 (SpecSweep): the sweep runs at every multiple of the sweep period,
\* lookups or not, and leaves no entry that has expired by then; so at any time
\* an entry still in the cache expired, if at all, after the last sweep, less
\* than one sweep period ago.
SweepResidency ==
    /\ now <= nextSweep
    /\ \A k \in DOMAIN cache :
           /\ cache[k].expiresAt > nextSweep - SweepPeriod
           /\ now - cache[k].expiresAt < SweepPeriod

\* an entry stored by the only call ever made, never looked up again, expired
\* between two sweeps and was removed by the second
SweepResidencyWitness ==
    /\ Len(callers) = 1
    /\ nextSweep > 2 * SweepPeriod
    /\ now < nextSweep - SweepPeriod + MinuteMs
    /\ \E k \in DOMAIN stored :
           /\ k \notin DOMAIN cache
           /\ stored[k].t0 + stored[k].ttl > SweepPeriod
           /\ stored[k].t0 + stored[k].ttl < 2 * SweepPeriod

\* C17 (SpecFetch): an attempt whose 2xx body cannot be decoded ends the call:
\* the request is rejected with that error after this one attempt, no backoff
\* delay is asked for and no further attempt is made.
DecodeNotRetried ==
    \A c \in DOMAIN chains :
        Shown(chains[c]) =>
            \A i \in DOMAIN chains[c].errs :
                chains[c].errs[i].name = "SyntaxError" =>
                    /\ chains[c].pc = "rejected"
                    /\ chains[c].result = chains[c].errs[i]
                    /\ chains[c].attempts = 1
                    /\ chains[c].delays = <<>>

IsArray(v) == v.t = "array"

\* C18 (SpecCache): a decoded body that is not of the expected shape (a list
\* for getLiveStreams and getEPG) makes the call fail: no caller is handed such a
\* value and the cache never holds one.
NoCorruptData ==
    /\ \A x \in DOMAIN callers :
           callers[x].pc = "done" /\ callers[x].outcome.kind = "value"
           /\ callers[x].op \in {"streams", "epg"} =>
               IsArray(callers[x].outcome.v)
    /\ \A k \in DOMAIN cache :
           StartsWith(k, STR_streams) \/ StartsWith(k, STR_epg) =>
               IsArray(cache[k].data)

Sorted(seq) == \A i, j \in DOMAIN seq : i < j => seq[i] <= seq[j]

\* C20 (SpecCache): what getEPG(streamId, limit) returns, fetched or from the
\* cache, is a list ordered by start time ascending of at most limit entries.
EpgShape ==
    \A x \in DOMAIN callers :
        callers[x].pc = "done" /\ callers[x].outcome.kind = "value"
        /\ callers[x].op = "epg" /\ IsArray(callers[x].outcome.v) =>
            /\ Sorted(callers[x].outcome.v.items)
            /\ Len(callers[x].outcome.v.items) <= DEFAULT_LIMIT

\* the ttl of the kind of data stored under a key, in minutes
KindMinutes(key) ==
    CASE StartsWith(key, STR_epg)     -> 5
      [] StartsWith(key, STR_streams) -> 10
      [] StartsWith(key, STR_movie)   -> 30

\* C25 (SpecCache): every cache entry expires at its creation time plus the ttl
\* of its kind: 5 minutes for getEPG, 10 for getLiveStreams, 30 for
\* getMovieInfo.
TtlPerKind ==
    \A k \in DOMAIN cache :
        /\ k \in DOMAIN stored
        /\ cache[k].timestamp = stored[k].t0
        /\ KindName(stored[k].op) \in {STR_epg, STR_streams, STR_movieInfo}
        /\ StartsWith(KindName(stored[k].op), SubSeq(k, 1, 3))
        /\ cache[k].expiresAt = cache[k].timestamp + KindMinutes(k) * 60 * 1000

\* a movie entry and a younger stream list, the movie entry older than the ttl
\* of a stream list
TtlPerKindWitness ==
    \E m, l \in DOMAIN cache :
        /\ StartsWith(m, STR_movie)
        /\ StartsWith(l, STR_streams)
        /\ cache[m].timestamp < cache[l].timestamp
        /\ now - cache[m].timestamp > 10 * 60 * 1000

\* C26 (SpecAuth): an authenticate call issues exactly one request to the login
\* endpoint, also when that request fails: it never waits for a backoff delay
\* and never makes a second attempt.
SingleLoginRequest ==
    \A l \in DOMAIN logins :
        Shown(logins[l]) =>
            /\ logins[l].attempts = 1
            /\ logins[l].delays = <<>>
            /\ logins[l].pc # "waiting"

\* C27 (SpecFlight): for every category key at most one getLiveStreams request
\* (its attempts and its backoff waits) is outstanding at a time, and the pending
\* registry has an entry for the key exactly while that request is outstanding.
OneFlight ==
    /\ \A c, d \in DOMAIN chains :
           /\ InFlight(c) /\ InFlight(d)
           /\ chains[c].op = "streams" /\ chains[d].op = "streams"
           /\ chains[c].key = chains[d].key
           => c = d
    /\ \A in \in FlightInputs :
           (PendingKey(in.key) \in DOMAIN pendingRequests)
               <=> \E c \in DOMAIN chains : InFlight(c) /\ chains[c].key = in.key
    /\ DOMAIN pendingRequests \subseteq {PendingKey(in.key) : in \in FlightInputs}

\* the list cached earlier has expired, and the request that refetches it is
\* registered and in a retry
OneFlightWitness ==
    \E c \in DOMAIN chains :
        /\ InFlight(c)
        /\ chains[c].retryCount >= 1
        /\ chains[c].key \in DOMAIN stored
        /\ chains[c].key \notin DOMAIN cache
        /\ now >= stored[chains[c].key].t0 + stored[chains[c].key].ttl
        /\ PendingKey(chains[c].key) \in DOMAIN pendingRequests
        /\ \E x \in DOMAIN callers : callers[x].pc = "waiting" /\ callers[x].chain = c

\* C28 (SpecCache): a call made while the cache holds an unexpired entry under
\* its key returns the payload of that entry, whatever the payload is, starts
\* no request, and leaves the cache and the pending registry as they were.
CacheHit ==
    [][Len(callers') > Len(callers) =>
          LET x == callers'[Len(callers')]
          IN  x.key \in DOMAIN cache /\ ~Expired(cache[x.key], now) =>
                  /\ x.pc = "done"
                  /\ x.outcome = Value(cache[x.key].data)
                  /\ Len(chains') = Len(chains)
                  /\ cache' = cache
                  /\ pendingRequests' = pendingRequests]_vars

\* C29 (SpecSweep): the sweep removes exactly the entries that a lookup at the
\* same time would find expired and delete (expiresAt <= now); an entry that a
\* lookup would still return stays, with its payload and expiry unchanged.
SameExpiry ==
    [][nextSweep' # nextSweep =>
          \A k \in DOMAIN cache :
              /\ k \notin DOMAIN cache' <=> k \notin DOMAIN cacheAfterGet(cache, k, now)
              /\ k \notin DOMAIN cache' <=> cache[k].expiresAt <= now
              /\ k \notin DOMAIN cache' => cacheGet(cache, k, now) = Null
              /\ k \in DOMAIN cache' =>
                     /\ cache'[k] = cache[k]
                     /\ cacheGet(cache, k, now) = cache[k].data]_vars

\* a sweep has just removed the expired one of two entries and kept the other
SameExpiryWitness ==
    /\ Len(callers) = 2
    /\ Cardinality(DOMAIN stored) = 2
    /\ Cardinality(DOMAIN cache) = 1
    /\ now = nextSweep - SweepPeriod
    /\ \A c \in DOMAIN chains : ~InFlight(c)
    /\ \E k \in DOMAIN stored :
           k \notin DOMAIN cache /\ stored[k].t0 + stored[k].ttl = now

\* C33 (SpecCache): a getLiveStreams request that was in flight when
\* clearCache('streams') ran does not store its result in the cache, and no
\* call made afterwards is handed its promise.
RefreshForced ==
    [][\A c \in DOMAIN chains :
          InFlight(c) /\ chains[c].stale /\ chains[c].op = "streams" =>
              /\ chains'[c].pc = "resolved" => cache' = cache
              /\ Len(callers') > Len(callers) => callers'[Len(callers')].chain # c]_vars

\* C34 (SpecLive): with every network attempt settling and every backoff timer
\* firing, a fetchWithRetry call in progress ends resolved or rejected after at
\* most 4 attempts, a waiting getLiveStreams caller gets an outcome, and a
\* registered key is unregistered again; an attempt leaves the fetching state
\* only with a response or an abort, a registration is removed and a waiting
\* caller is answered only in the step that settles its request.
LiveKeys == {PendingKey(in.key) : in \in LiveInputs}

OnlySettlingEnds ==
    [][/\ \A c \in DOMAIN chains :
             chains[c].pc = "fetching" /\ chains'[c].pc # "fetching" =>
                 \/ chains'[c].pc = "resolved"
                 \/ Len(chains'[c].errs) > Len(chains[c].errs)
       /\ \A k \in DOMAIN pendingRequests :
             k \notin DOMAIN pendingRequests' \/ pendingRequests'[k] # pendingRequests[k] =>
                 Settled(chains'[pendingRequests[k]])
       /\ \A x \in DOMAIN callers :
             callers[x].pc = "waiting" /\ callers'[x].pc # "waiting" =>
                 /\ callers'[x].pc = "done"
                 /\ Settled(chains'[callers[x].chain])]_vars

EveryCallSettles ==
    /\ \A c \in 1..MaxLiveCalls :
           InFlight(c) ~>
               /\ c \in DOMAIN chains
               /\ Settled(chains[c])
               /\ chains[c].attempts <= Len(retryDelays) + 1
    /\ \A x \in 1..MaxLiveCalls :
           (x \in DOMAIN callers /\ callers[x].pc = "waiting") ~>
               (x \in DOMAIN callers /\ callers[x].pc = "done")
    /\ \A k \in LiveKeys :
           (k \in DOMAIN pendingRequests) ~> (k \notin DOMAIN pendingRequests)
    /\ OnlySettlingEnds

\* a shared getLiveStreams request has been rejected after its 4th attempt, the
\* caller that joined it has the failure, and the registry is empty
EveryCallSettlesWitness ==
    \E c \in DOMAIN chains :
        /\ Shown(chains[c]) /\ chains[c].pc = "rejected"
        /\ chains[c].attempts = Len(retryDelays) + 1
        /\ pendingRequests = <<>>
        /\ \E x \in DOMAIN callers :
               /\ callers[x].pc = "done" /\ callers[x].chain = c
               /\ callers[x].role = "joined"
               /\ callers[x].outcome.kind = "error"

Segment(kind) ==
    CASE kind = "live"   -> <<"l", "i", "v", "e">>
      [] kind = "movie"  -> <<"m", "o", "v", "i", "e">>
      [] kind = "series" -> <<"s", "e", "r", "i", "e", "s">>

\* C19 (SpecUrl): building a stream URL yields
\* baseUrl/<live|movie|series>/username/password/id, whatever the session and
\* the cache hold, starts no request and changes neither the cache, the pending
\* registry nor the session state.
UrlDeterminism ==
    [][built' # built =>
              /\ built'.url = config.baseUrl \o <<"/">> \o Segment(built'.kind) \o <<"/">>
                                \o config.username \o <<"/">> \o config.password
                                \o <<"/">> \o (IF built'.id.t = "number"
                                               THEN Digits(built'.id.v) ELSE built'.id.s)
              /\ cache' = cache
              /\ pendingRequests' = pendingRequests
              /\ userInfo' = userInfo
              /\ config' = config
              /\ Len(chains') = Len(chains)
              /\ Len(logins') = Len(logins)
              /\ \A c \in DOMAIN chains : InFlight(c) => chains'[c] = chains[c]
              /\ \A l \in DOMAIN logins : LoginLive(l) => logins'[l] = logins[l]]_vars

\* a URL built with a session stored and a response cached
UrlDeterminismWitness ==
    /\ built.set
    /\ built.kind = "live"
    /\ built.id = Num(7)
    /\ built.url = <<"h", "/", "l", "i", "v", "e", "/", "u", "/", "p", "/", "7">>
    /\ userInfo # Null
    /\ DOMAIN cache # {}

(***************************************************************************)
(* SpecFetch: one service call, the clock in seconds: the retry schedule   *)
(* and cancellation.                                                       *)
(***************************************************************************)
NextFetch ==
    \/ /\ \E in \in CallInputs : Call(in, TRUE, 1)
       /\ UNCHANGED <<dbvars, authvars, uivars>>
    \/ /\ \E c \in DOMAIN chains, body \in Bodies : RespondOk(c, body)
       /\ UNCHANGED <<dbvars, authvars, uivars>>
    \/ /\ \E c \in DOMAIN chains, kind \in FailureKinds : RespondFail(c, kind)
       /\ UNCHANGED <<dbvars, authvars, uivars>>
    \/ /\ \E c \in DOMAIN chains : TimerFire(c)
       /\ UNCHANGED <<dbvars, authvars, uivars>>
    \/ /\ \E x \in DOMAIN callers : Abort(x)
       /\ UNCHANGED <<dbvars, authvars, uivars>>
    \/ /\ Tick(SecondMs, MaxFetchTicks)
       /\ UNCHANGED <<dbvars, authvars, uivars>>

InitFetch == SvcInit /\ DbIdle /\ AuthIdle /\ PlayerIdle

SpecFetch == InitFetch /\ [][NextFetch]_vars

(***************************************************************************)
(* SpecFail: two service calls of which any may fail, retry or be aborted  *)
(* while the other's answer is cached.                                     *)
(***************************************************************************)
FailInputs == {in \in CallInputs : in.op = "epg"}

NextFail ==
    \/ /\ \E in \in FailInputs : Call(in, TRUE, MaxFailCalls)
       /\ UNCHANGED <<dbvars, authvars, uivars>>
    \/ /\ \E c \in DOMAIN chains : RespondOk(c, Arr(<<2, 1>>))
       /\ UNCHANGED <<dbvars, authvars, uivars>>
    \/ /\ \E c \in DOMAIN chains : RespondFail(c, "network")
       /\ UNCHANGED <<dbvars, authvars, uivars>>
    \/ /\ \E c \in DOMAIN chains : TimerFire(c)
       /\ UNCHANGED <<dbvars, authvars, uivars>>
    \/ /\ \E x \in DOMAIN callers : Abort(x)
       /\ UNCHANGED <<dbvars, authvars, uivars>>
    \* the clock moves while a backoff timer is running
    \/ /\ \E c \in DOMAIN chains : chains[c].pc = "waiting"
       /\ Tick(SecondMs, MaxFailTicks)
       /\ UNCHANGED <<dbvars, authvars, uivars>>

InitFail == SvcInit /\ DbIdle /\ AuthIdle /\ PlayerIdle

SpecFail == InitFail /\ [][NextFail]_vars

(***************************************************************************)
(* SpecSweep: answered service calls and the periodic sweep, the clock in  *)
(* minutes.                                                                *)
(***************************************************************************)
SweepInputs == {in \in CallInputs : in.key # StreamsKey(Str(<<"1">>)) /\ in.op # "movieInfo"}

NextSweep ==
    \/ /\ \E in \in SweepInputs : Call(in, FALSE, MaxSweepCalls)
       /\ UNCHANGED <<dbvars, authvars, uivars>>
    \/ /\ \E c \in DOMAIN chains : RespondOk(c, Arr(<<2, 1>>))
       /\ UNCHANGED <<dbvars, authvars, uivars>>
    \/ /\ Sweep
       /\ UNCHANGED <<dbvars, authvars, uivars>>
    \/ /\ Tick(MinuteMs, MaxSweepTicks)
       /\ UNCHANGED <<dbvars, authvars, uivars>>

InitSweep == SvcInit /\ DbIdle /\ AuthIdle /\ PlayerIdle

SpecSweep == InitSweep /\ [][NextSweep]_vars

(***************************************************************************)
(* SpecFlight: getLiveStreams calls with failures, retries, aborts,        *)
(* invalidation, the sweep and expiry; the clock moves by seconds at first *)
(* and by sweep periods (a timer that has come due in between fires late). *)
(***************************************************************************)
NextFlight ==
    \/ /\ \E in \in FlightInputs : Call(in, TRUE, MaxFlightCalls)
       /\ UNCHANGED <<dbvars, authvars, uivars>>
    \/ /\ \E c \in DOMAIN chains : RespondOk(c, Arr(<<2, 1>>))
       /\ UNCHANGED <<dbvars, authvars, uivars>>
    \/ /\ \E c \in DOMAIN chains : RespondFail(c, "network")
       /\ UNCHANGED <<dbvars, authvars, uivars>>
    \/ /\ \E c \in DOMAIN chains : TimerFire(c)
       /\ UNCHANGED <<dbvars, authvars, uivars>>
    \/ /\ \E x \in DOMAIN callers : Abort(x)
       /\ UNCHANGED <<dbvars, authvars, uivars>>
    \/ /\ ClearCache("streams")
       /\ UNCHANGED <<dbvars, authvars, uivars>>
    \/ /\ Sweep
       /\ UNCHANGED <<dbvars, authvars, uivars>>
    \/ /\ Tick(SecondMs, MaxFlightSeconds)
       /\ UNCHANGED <<dbvars, authvars, uivars>>
    \/ /\ Tick(SweepPeriod, MaxFlightPeriods)
       /\ UNCHANGED <<dbvars, authvars, uivars>>

InitFlight == SvcInit /\ DbIdle /\ AuthIdle /\ PlayerIdle

SpecFlight == InitFlight /\ [][NextFlight]_vars

(***************************************************************************)
(* SpecLive: getLiveStreams calls with failures, retries and aborts, where *)
(* every network attempt settles and every backoff timer fires.  The clock *)
(* moves by seconds; it may always move while a backoff timer is running.  *)
(***************************************************************************)
BackoffSeconds == (retryDelays[1] + retryDelays[2] + retryDelays[3]) \div SecondMs

LiveClock ==
    IF \E c \in DOMAIN chains : chains[c].pc = "waiting"
    THEN MaxLiveTicks + BackoffSeconds * MaxLiveCalls
    ELSE MaxLiveTicks

NextLive ==
    \/ /\ \E in \in LiveInputs : Call(in, TRUE, MaxLiveCalls)
       /\ UNCHANGED <<dbvars, authvars, uivars>>
    \/ /\ \E c \in DOMAIN chains : RespondOk(c, Arr(<<2, 1>>))
       /\ UNCHANGED <<dbvars, authvars, uivars>>
    \/ /\ \E c \in DOMAIN chains : RespondFail(c, "network")
       /\ UNCHANGED <<dbvars, authvars, uivars>>
    \/ /\ \E c \in DOMAIN chains : TimerFire(c)
       /\ UNCHANGED <<dbvars, authvars, uivars>>
    \/ /\ \E x \in DOMAIN callers : Abort(x)
       /\ UNCHANGED <<dbvars, authvars, uivars>>
    \/ /\ Tick(SecondMs, LiveClock)
       /\ UNCHANGED <<dbvars, authvars, uivars>>

\* the attempt of chain c that is outstanding gets its response
AttemptSettles(c) ==
    /\ RespondOk(c, Arr(<<2, 1>>)) \/ RespondFail(c, "network")
    /\ UNCHANGED <<dbvars, authvars, uivars>>

\* the backoff timer of chain c fires once it is due
TimerFires(c) == TimerFire(c) /\ UNCHANGED <<dbvars, authvars, uivars>>

\* time passes
TimePasses == Tick(SecondMs, LiveClock) /\ UNCHANGED <<dbvars, authvars, uivars>>

LiveFairness ==
    /\ \A c \in 1..MaxLiveCalls : WF_vars(AttemptSettles(c))
    /\ \A c \in 1..MaxLiveCalls : WF_vars(TimerFires(c))
    /\ WF_vars(TimePasses)

InitLive == SvcInit /\ DbIdle /\ AuthIdle /\ PlayerIdle

SpecLive == InitLive /\ [][NextLive]_vars /\ LiveFairness

(***************************************************************************)
(* SpecCache: service calls whose requests succeed, invalidation and the   *)
(* sweep, the clock in sweep periods: expiry.                              *)
(***************************************************************************)
\* one key of each kind
CacheInputs == {in \in CallInputs : in.key # StreamsKey(Str(<<"1">>))}

NextCache ==
    \/ /\ \E in \in CacheInputs : Call(in, TRUE, MaxCacheCalls)
       /\ UNCHANGED <<dbvars, authvars, uivars>>
    \/ /\ \E c \in DOMAIN chains, body \in Bodies : RespondOk(c, body)
       /\ UNCHANGED <<dbvars, authvars, uivars>>
    \/ /\ \E type \in Ops : ClearCache(type)
       /\ UNCHANGED <<dbvars, authvars, uivars>>
    \/ /\ Sweep
       /\ UNCHANGED <<dbvars, authvars, uivars>>
    \/ /\ Tick(SweepPeriod, MaxCacheTicks)
       /\ UNCHANGED <<dbvars, authvars, uivars>>

InitCache == SvcInit /\ DbIdle /\ AuthIdle /\ PlayerIdle

SpecCache == InitCache /\ [][NextCache]_vars

(***************************************************************************)
(* SpecDedup: concurrent service calls with failures, retries and          *)
(* cancellation, the clock in seconds: the in-flight registry.             *)
(***************************************************************************)
\* one key of the deduplicated kind and one of a kind that is not
DedupInputs == {in \in CallInputs : in.key # StreamsKey(Str(<<"1">>)) /\ in.op # "movieInfo"}

\* the answers that matter to the registry: one the cache reads back as a miss
\* and one it reads back as a hit
DedupBodies == {Null, Arr(<<2, 1>>)}

NextDedup ==
    \/ /\ \E in \in DedupInputs : Call(in, TRUE, MaxDedupCalls)
       /\ UNCHANGED <<dbvars, authvars, uivars>>
    \/ /\ \E c \in DOMAIN chains, body \in DedupBodies : RespondOk(c, body)
       /\ UNCHANGED <<dbvars, authvars, uivars>>
    \/ /\ \E c \in DOMAIN chains : RespondFail(c, "status")
       /\ UNCHANGED <<dbvars, authvars, uivars>>
    \/ /\ \E c \in DOMAIN chains : TimerFire(c)
       /\ UNCHANGED <<dbvars, authvars, uivars>>
    \/ /\ \E x \in DOMAIN callers : Abort(x)
       /\ UNCHANGED <<dbvars, authvars, uivars>>
    \/ /\ \E type \in Ops : ClearCache(type)
       /\ UNCHANGED <<dbvars, authvars, uivars>>
    \/ /\ Tick(SecondMs, MaxDedupTicks)
       /\ UNCHANGED <<dbvars, authvars, uivars>>

InitDedup == SvcInit /\ DbIdle /\ AuthIdle /\ PlayerIdle

SpecDedup == InitDedup /\ [][NextDedup]_vars

(***************************************************************************)
(* SpecDb: a Database on a fresh medium, its calls overlapping.            *)
(***************************************************************************)
NextDb ==
    \/ /\ \E k \in DbKeys, a \in SaveArgs : SaveCall(k[1], k[2], a[1], a[2], MaxDbOps)
       /\ UNCHANGED <<now, svcvars, authvars, uivars>>
    \/ /\ \E p \in Procs, setItemThrows \in BOOLEAN : SaveResume(p, setItemThrows)
       /\ UNCHANGED <<now, svcvars, authvars, uivars>>
    \/ /\ \E k \in DbKeys \cup {<<MOVIE, ID_empty>>} : GetCall(k[1], k[2], MaxDbOps)
       /\ UNCHANGED <<now, svcvars, authvars, uivars>>
    \/ /\ \E p \in Procs : GetResume(p)
       /\ UNCHANGED <<now, svcvars, authvars, uivars>>
    \/ /\ \E k \in DbKeys \cup {<<MOVIE, ID_empty>>} : ClearCall(k[1], k[2], MaxDbOps)
       /\ UNCHANGED <<now, svcvars, authvars, uivars>>
    \/ /\ \E p \in Procs, setItemThrows \in BOOLEAN : ClearResume(p, setItemThrows)
       /\ UNCHANGED <<now, svcvars, authvars, uivars>>
    \/ /\ \E removeItemThrows \in BOOLEAN : ClearAll(removeItemThrows, MaxDbOps)
       /\ UNCHANGED <<now, svcvars, authvars, uivars>>
    \/ /\ \E d \in MaxAgeArgs : PruneCall(d, MaxDbOps)
       /\ UNCHANGED <<now, svcvars, authvars, uivars>>
    \/ /\ \E p \in Procs, setItemThrows \in BOOLEAN : PruneResume(p, setItemThrows)
       /\ UNCHANGED <<now, svcvars, authvars, uivars>>

InitDb == now = 0 /\ SvcStart /\ DbInitFrom(Missing) /\ AuthIdle /\ PlayerIdle

SpecDb == InitDb /\ [][NextDb]_vars

(***************************************************************************)
(* SpecWrite: the writing calls of a Database, the medium's write failing  *)
(* or not.                                                                 *)
(***************************************************************************)
WriteArgs == {<<Num(120), Num(3600)>>, <<Undefined, Num(3600)>>, <<Num(120), Str(<<"x">>)>>}

NextWrite ==
    \/ /\ \E k \in DbKeys, a \in WriteArgs : SaveCall(k[1], k[2], a[1], a[2], MaxWriteOps)
       /\ UNCHANGED <<now, svcvars, authvars, uivars>>
    \/ /\ \E p \in Procs, setItemThrows \in BOOLEAN : SaveResume(p, setItemThrows)
       /\ UNCHANGED <<now, svcvars, authvars, uivars>>
    \/ /\ \E k \in DbKeys \cup {<<MOVIE, ID_empty>>} : ClearCall(k[1], k[2], MaxWriteOps)
       /\ UNCHANGED <<now, svcvars, authvars, uivars>>
    \/ /\ \E p \in Procs, setItemThrows \in BOOLEAN : ClearResume(p, setItemThrows)
       /\ UNCHANGED <<now, svcvars, authvars, uivars>>
    \/ /\ \E removeItemThrows \in BOOLEAN : ClearAll(removeItemThrows, MaxWriteOps)
       /\ UNCHANGED <<now, svcvars, authvars, uivars>>
    \/ /\ \E d \in MaxAgeArgs : PruneCall(d, MaxWriteOps)
       /\ UNCHANGED <<now, svcvars, authvars, uivars>>
    \/ /\ \E p \in Procs, setItemThrows \in BOOLEAN : PruneResume(p, setItemThrows)
       /\ UNCHANGED <<now, svcvars, authvars, uivars>>

InitWrite == now = 0 /\ SvcStart /\ DbInitFrom(Missing) /\ AuthIdle /\ PlayerIdle

SpecWrite == InitWrite /\ [][NextWrite]_vars

(***************************************************************************)
(* SpecPrune: saves and prunes, the clock in days, forwards and backwards. *)
(***************************************************************************)
NextPrune ==
    \/ /\ \E k \in DbKeys : SaveCall(k[1], k[2], Num(120), Num(3600), MaxPruneOps)
       /\ UNCHANGED <<svcvars, authvars, uivars>>
    \/ /\ \E p \in Procs : SaveResume(p, FALSE)
       /\ UNCHANGED <<svcvars, authvars, uivars>>
    \/ /\ \E d \in MaxAgeArgs : PruneCall(d, MaxPruneOps)
       /\ UNCHANGED <<svcvars, authvars, uivars>>
    \/ /\ \E p \in Procs : PruneResume(p, FALSE)
       /\ UNCHANGED <<svcvars, authvars, uivars>>
    \/ /\ TickDay
       /\ UNCHANGED <<svcvars, authvars, uivars>>
    \/ /\ ClockBack
       /\ UNCHANGED <<svcvars, authvars, uivars>>

InitPrune == now = 0 /\ SvcStart /\ DbInitFrom(Missing) /\ AuthIdle /\ PlayerIdle

SpecPrune == InitPrune /\ [][NextPrune]_vars

(***************************************************************************)
(* SpecMedium: a Database over a medium in any state, read and written.    *)
(***************************************************************************)
Item42(position) == Progress(MOVIE, ID_42, position, Num(3600), Num(0))

MediumStates ==
    {Missing, [kind |-> "unparsable"], [kind |-> "nonarray"], [kind |-> "denied"],
     Stored(<<>>), Stored(<<Null>>),
     Stored(<<Item42(Num(120))>>),
     Stored(<<Item42(Num(0 - 5))>>),
     Stored(<<Item42(Null)>>),
     Stored(<<Item42(Undefined)>>),
     Stored(<<Item42(Str(<<"1", "2">>))>>),
     Stored(<<Item42(Str(<<"x">>))>>),
     Stored(<<Null, Item42(Num(120))>>),
     Stored(<<Item42(Num(120)), Null>>),
     Stored(<<Progress(SERIES, ID_42, Num(7), Num(3600), Num(2 * DayMs)),
              Item42(Num(120))>>)}

NextMedium ==
    \/ /\ \E k \in DbKeys \cup {<<MOVIE, ID_empty>>} : GetCall(k[1], k[2], MaxMediumOps)
       /\ UNCHANGED <<now, svcvars, authvars, uivars>>
    \/ /\ \E p \in Procs : GetResume(p)
       /\ UNCHANGED <<now, svcvars, authvars, uivars>>
    \/ /\ \E k \in DbKeys : SaveCall(k[1], k[2], Num(200), Num(3600), MaxMediumOps)
       /\ UNCHANGED <<now, svcvars, authvars, uivars>>
    \/ /\ \E p \in Procs, setItemThrows \in BOOLEAN : SaveResume(p, setItemThrows)
       /\ UNCHANGED <<now, svcvars, authvars, uivars>>
    \/ /\ \E p \in Procs, setItemThrows \in BOOLEAN : PruneResume(p, setItemThrows)
       /\ UNCHANGED <<now, svcvars, authvars, uivars>>

InitMedium ==
    /\ now = DayMs
    /\ SvcStart
    /\ \E st \in MediumStates : DbInitFrom(st)
    /\ AuthIdle
    /\ PlayerIdle

SpecMedium == InitMedium /\ [][NextMedium]_vars

(***************************************************************************)
(* SpecBulk: saves with distinct ids, one after the other, on a fresh      *)
(* medium.                                                                 *)
(***************************************************************************)
\* the saves that may come before the video's duration is known (NaN)
BulkNaNAt == {1, MaxBulkSaves - 1}

BulkSave(duration) ==
    /\ \A p \in Procs : ~Running(p)
    /\ duration = NaN => (opsStarted + 1) \in BulkNaNAt
    /\ SaveCall(MOVIE, BulkId(opsStarted + 1), Num(opsStarted + 1), duration, MaxBulkSaves)

NextBulk ==
    \/ /\ \E duration \in {Num(3600), NaN} : BulkSave(duration)
       /\ UNCHANGED <<now, svcvars, authvars, uivars>>
    \/ /\ \E p \in Procs : SaveResume(p, FALSE)
       /\ UNCHANGED <<now, svcvars, authvars, uivars>>
    \/ /\ \E p \in Procs : PruneResume(p, FALSE)
       /\ UNCHANGED <<now, svcvars, authvars, uivars>>

InitBulk == now = 0 /\ SvcStart /\ DbInitFrom(Missing) /\ AuthIdle /\ PlayerIdle

SpecBulk == InitBulk /\ [][NextBulk]_vars

(***************************************************************************)
(* SpecEvict: saves with distinct ids, one after the other, on a fresh     *)
(* medium, the wall clock being set back once between two of them.         *)
(***************************************************************************)
\* the numbers of saves made after which the clock may be set back
EvictBackAt == {1, MAX_ENTRIES \div 2}

EvictSave ==
    /\ \A p \in Procs : ~Running(p)
    /\ SaveCall(MOVIE, BulkId(opsStarted + 1), Num(opsStarted + 1), Num(3600),
                MaxEvictSaves)

EvictClockBack ==
    /\ \A p \in Procs : ~Running(p)
    /\ opsStarted \in EvictBackAt
    /\ ClockBack

NextEvict ==
    \/ /\ EvictSave
       /\ UNCHANGED <<svcvars, authvars, uivars>>
    \/ /\ \E p \in Procs : SaveResume(p, FALSE)
       /\ UNCHANGED <<svcvars, authvars, uivars>>
    \/ /\ \E p \in Procs : PruneResume(p, FALSE)
       /\ UNCHANGED <<svcvars, authvars, uivars>>
    \/ /\ EvictClockBack
       /\ UNCHANGED <<svcvars, authvars, uivars>>

InitEvict == now = DayMs /\ SvcStart /\ DbInitFrom(Missing) /\ AuthIdle /\ PlayerIdle

SpecEvict == InitEvict /\ [][NextEvict]_vars

(***************************************************************************)
(* SpecAuth: authenticate calls, overlapping, with failures and retries;   *)
(* the clock in seconds.                                                   *)
(***************************************************************************)
AuthTick ==
    /\ NoLoginTimerDue
    \* the clock moves while a backoff timer is running
    /\ \E l \in DOMAIN logins : logins[l].pc = "waiting"
    /\ Tick(SecondMs, MaxAuthTicks)

NextAuth ==
    \/ /\ Authenticate(MaxAuthCalls)
       /\ UNCHANGED <<now, svcvars, dbvars, uivars>>
    \/ /\ \E l \in DOMAIN logins, body \in LoginBodies : LoginRespondOk(l, body)
       /\ UNCHANGED <<now, svcvars, dbvars, uivars>>
    \/ /\ \E l \in DOMAIN logins : LoginRespondFail(l, "network")
       /\ UNCHANGED <<now, svcvars, dbvars, uivars>>
    \/ /\ \E l \in DOMAIN logins : LoginTimerFire(l)
       /\ UNCHANGED <<now, svcvars, dbvars, uivars>>
    \/ /\ AuthTick
       /\ logins' = LiveLogins
       /\ UNCHANGED <<dbvars, config, userInfo, built, uivars>>

InitAuth == SvcInit /\ DbIdle /\ AuthStart(Config(Text("h"), Text("u"), Text("p"))) /\ PlayerIdle

SpecAuth == InitAuth /\ [][NextAuth]_vars

(***************************************************************************)
(* SpecUrl: stream URLs built before, during and after an authenticate     *)
(* call and service calls that fill the cache.                             *)
(***************************************************************************)
NextUrl ==
    \/ /\ \E kind \in UrlKinds, id \in UrlIds : BuildUrl(kind, id)
       /\ UNCHANGED <<now, svcvars, dbvars, uivars>>
    \/ /\ Authenticate(1)
       /\ UNCHANGED <<now, svcvars, dbvars, uivars>>
    \/ /\ \E l \in DOMAIN logins, body \in LoginBodies : LoginRespondOk(l, body)
       /\ UNCHANGED <<now, svcvars, dbvars, uivars>>
    \/ /\ \E in \in CallInputs : Call(in, TRUE, MaxUrlCalls)
       /\ logins' = LiveLogins
       /\ UNCHANGED <<dbvars, config, userInfo, built, uivars>>
    \/ /\ \E c \in DOMAIN chains : RespondOk(c, Arr(<<>>))
       /\ logins' = LiveLogins
       /\ UNCHANGED <<dbvars, config, userInfo, built, uivars>>

InitUrl == SvcInit /\ DbIdle /\ \E cfg \in ConfigStates : AuthStart(cfg) /\ PlayerIdle

SpecUrl == InitUrl /\ [][NextUrl]_vars

(***************************************************************************)
(* SpecPlayer: one IntegratedPlayer, mounted, given new content and        *)
(* unmounted while its loads and its EPG intervals are in progress.        *)
(***************************************************************************)
NextPlayer ==
    \/ /\ \E c \in Contents : Mount(c)
       /\ UNCHANGED <<now, svcvars, dbvars, authvars>>
    \/ /\ \E c \in Contents : ChangeContent(c, MaxLoads)
       /\ UNCHANGED <<now, svcvars, dbvars, authvars>>
    \/ /\ Unmount
       /\ UNCHANGED <<now, svcvars, dbvars, authvars>>
    \/ /\ \E r \in DOMAIN loads, epg \in Bodies : EpgArrives(r, epg)
       /\ UNCHANGED <<now, svcvars, dbvars, authvars>>
    \/ /\ \E r \in DOMAIN loads, audioTracks \in MovieAnswers : MovieArrives(r, audioTracks)
       /\ UNCHANGED <<now, svcvars, dbvars, authvars>>
    \/ /\ \E r \in DOMAIN loads : LoadFails(r)
       /\ UNCHANGED <<now, svcvars, dbvars, authvars>>
    \/ /\ \E i \in DOMAIN intervals : IntervalFires(i, Arr(<<1, 2>>))
       /\ UNCHANGED <<now, svcvars, dbvars, authvars>>

InitPlayer == SvcInit /\ DbIdle /\ AuthIdle /\ PlayerIdle

SpecPlayer == InitPlayer /\ [][NextPlayer]_vars

====
